---- MODULE Spec2Model ----
(***************************************************************************)
(* A model of cabify/go-couchdb: the transport (request building, response *)
(* classification, error model), the option encoder, the authentication   *)
(* strategy guarded by a reader/writer lock, and the SyncDesign            *)
(* get-compare-put cycle run by concurrent callers against one server.     *)
(*                                                                         *)
(* Go strings are sequences of one-character strings: "" is <<>>.          *)
(***************************************************************************)
EXTENDS Integers, Sequences, FiniteSets, TLC

VARIABLES
    srvRev,     \* server: generation of the design document, 0 = no document
    srvViews,   \* server: the stored view definitions
    writers,    \* history: who has written the design document so far
    srvLog,     \* history: the views and the writer of each revision the server assigned
    pc,         \* per caller: "idle", or "put" between the GET and the PUT
    d,          \* per caller: the local *Design (Rev, Views)
    prevRev,    \* per caller: prev.Rev as fetched by the GET
    cur,        \* per caller: the running call's record so far
    hist,       \* per caller: the records of the completed calls
    hreq,       \* transport.request: the request of the last call
    hex,        \* transport.request: what the exchange of the last call gave
    hret,       \* transport.request: what the last call returned
    probe,      \* the last call of the classification predicates
    transports, \* the transports: auth, and the holders of mu
    handles,    \* the client (1) and the DBs: the transport each points to
    apc,        \* per goroutine: its position in setAuth or in a request
    job,        \* per goroutine: the locals of its call, and its history
    latest,     \* history: the values the last returned SetAuth may have left
    ops,        \* history: SetAuth calls and requests started
    eop,        \* optpath: the operation that made the last call
    eopts,      \* optpath: the options of the last call
    ejs,        \* optpath: the JSON keys of the last call
    eorder,     \* optpath: the order in which the map was iterated
    eret,       \* optpath: what the last call returned
    bop,        \* bulk: the operation of the last call
    barg,       \* bulk: its arguments
    bex,        \* bulk: what its exchange gave
    bret,       \* bulk: what it returned
    oop,        \* documents: the operation of the last call
    oarg,       \* documents: its arguments
    oreq,       \* documents: the request it sent
    oex,        \* documents: what its exchange gave
    oret,       \* documents: what it returned
    caddr,      \* client: the address it was constructed with
    cauth,      \* client: the strategy last given to it, at construction or by SetAuth
    ctransports,\* client: the transports
    chandles,   \* client: the client (1) and its DB handles, each naming its transport
    clast       \* client: what the last call sent and returned

syncVars == <<srvRev, srvViews, writers, srvLog, pc, d, prevRev, cur, hist>>
httpVars == <<hreq, hex, hret, probe>>
authVars == <<transports, handles, apc, job, latest, ops>>

encVars == <<eop, eopts, ejs, eorder, eret>>

bulkVars == <<bop, barg, bex, bret>>

opVars == <<oop, oarg, oreq, oex, oret>>

clientVars == <<caddr, cauth, ctransports, chandles, clast>>

vars == <<syncVars, httpVars, authVars, encVars, bulkVars, opVars, clientVars>>

\* Each part of the library is exercised on its own: its steps leave the
\* state of the other parts alone.
SyncOnly == UNCHANGED <<httpVars, authVars, encVars, bulkVars, opVars, clientVars>>
HttpOnly == UNCHANGED <<syncVars, authVars, encVars, bulkVars, opVars, clientVars>>
AuthOnly == UNCHANGED <<syncVars, httpVars, encVars, bulkVars, opVars, clientVars>>
EncOnly == UNCHANGED <<syncVars, httpVars, authVars, bulkVars, opVars, clientVars>>
BulkOnly == UNCHANGED <<syncVars, httpVars, authVars, encVars, opVars, clientVars>>
OpOnly == UNCHANGED <<syncVars, httpVars, authVars, encVars, bulkVars, clientVars>>
ClientOnly == UNCHANGED <<syncVars, httpVars, authVars, encVars, bulkVars, opVars>>

(***************************************************************************)
(* Bounds                                                                  *)
(***************************************************************************)
MaxRev == 2         \* the server assigns at most this many revisions
MaxCalls == 2       \* SyncDesign calls, over all callers
MinStatus == 100    \* the status codes a response carries
MaxStatus == 599
MaxOps == 3         \* SetAuth calls and requests, over all goroutines
MaxKeys == 2        \* the keys of an option mapping
MaxItems == 2       \* the documents of a bulk request, the entries of its reply

Callers == {1, 2}
External == 0       \* a writer that is not one of the callers
Views == {"v1", "v2"}

(***************************************************************************)
(* Strings                                                                 *)
(***************************************************************************)
Digits == <<"1", "2", "3", "4", "5", "6", "7", "8", "9">>

\* The revision token of generation n ("" for none).
RevStr(n) == IF n = 0 THEN <<>> ELSE <<Digits[n]>>

\* The header form of a revision: the token in double quotes.
Quoted(s) == <<"\"">> \o s \o <<"\"">>

Unreserved ==
    {"a", "b", "c", "d", "e", "f", "g", "h", "i", "j", "k", "l", "m", "n", "o",
     "p", "q", "r", "s", "t", "u", "v", "w", "x", "y", "z",
     "0", "1", "2", "3", "4", "5", "6", "7", "8", "9", "-", "_", ".", "~"}

\* url.QueryEscape of one character.
EscapeChar(ch) ==
    IF ch \in Unreserved THEN <<ch>>
    ELSE CASE ch = " "  -> <<"+">>
           [] ch = "\"" -> <<"%", "2", "2">>
           [] ch = "%"  -> <<"%", "2", "5">>
           [] ch = "&"  -> <<"%", "2", "6">>
           [] ch = "+"  -> <<"%", "2", "B">>
           [] ch = ","  -> <<"%", "2", "C">>
           [] ch = "/"  -> <<"%", "2", "F">>
           [] ch = "="  -> <<"%", "3", "D">>
           [] ch = "?"  -> <<"%", "3", "F">>
           [] ch = "["  -> <<"%", "5", "B">>
           [] ch = "\\" -> <<"%", "5", "C">>
           [] ch = "]"  -> <<"%", "5", "D">>

RECURSIVE QueryEscape(_)
QueryEscape(s) ==
    IF s = <<>> THEN <<>> ELSE EscapeChar(Head(s)) \o QueryEscape(Tail(s))

Prefix == <<"h">>
DBName == <<"d", "b">>
DesignID == <<"_", "d", "/", "t">>

(***************************************************************************)
(* http.go: paths                                                          *)
(***************************************************************************)
RECURSIVE path(_)
path(segs) ==
    IF segs = <<>> THEN <<>>
    ELSE <<"/">> \o QueryEscape(Head(segs)) \o path(Tail(segs))

revpath(rev, segs) ==
    IF rev # <<>>
    THEN path(segs) \o <<"?", "r", "e", "v", "=">> \o QueryEscape(rev)
    ELSE path(segs)

(***************************************************************************)
(* http.go: the error model                                                *)
(***************************************************************************)
NoErr ==
    [kind |-> "nil", method |-> "", url |-> <<>>, status |-> 0,
     code |-> "", reason |-> ""]

\* An error that is not a *Error: "transport", "decode", "protocol", "encoding".
PlainErr(k) == [NoErr EXCEPT !.kind = k]

\* A non-nil *Error.
ServerErr(method, url, status, code, reason) ==
    [kind |-> "server", method |-> method, url |-> url, status |-> status,
     code |-> code, reason |-> reason]

\* An error interface holding a nil *Error.
NilPtrErr == PlainErr("nilptr")

\* err.(*Error) succeeds for both a non-nil and a nil *Error; reading
\* StatusCode through the nil pointer panics.
ErrorStatus(err, statusCode) ==
    IF err.kind = "server"
    THEN [panic |-> FALSE, value |-> err.status = statusCode]
    ELSE IF err.kind = "nilptr"
    THEN [panic |-> TRUE, value |-> FALSE]
    ELSE [panic |-> FALSE, value |-> FALSE]

NotFound(err) == ErrorStatus(err, 404)
Unauthorized(err) == ErrorStatus(err, 401)
Conflict(err) == ErrorStatus(err, 409)

(***************************************************************************)
(* Responses.  body.kind: "doc" (a design document), "err" ({error,       *)
(* reason}), "ok" (a write acknowledgement), "junk" (not JSON), "none".    *)
(***************************************************************************)
Body(kind, rev, views, code, reason) ==
    [kind |-> kind, rev |-> rev, views |-> views, code |-> code, reason |-> reason]

NoBody == Body("none", <<>>, "", "", "")

Resp(status, etag, body) == [status |-> status, etag |-> etag, body |-> body]

NoResp == Resp(0, <<>>, NoBody)

\* What the HTTP exchange capability hands back: a failure or a response.
NetFail == [neterr |-> TRUE, resp |-> NoResp]
Answer(resp) == [neterr |-> FALSE, resp |-> resp]

\* readBody into a struct{ Error, Reason string }; cause is the text of the
\* decoder's error: an empty body ends before a value, junk is no JSON.
readBodyReply(resp) ==
    IF resp.body.kind = "none"
    THEN [err |-> PlainErr("decode"), cause |-> "EOF", code |-> "", reason |-> ""]
    ELSE IF resp.body.kind = "junk"
    THEN [err |-> PlainErr("decode"), cause |-> "invalid character", code |-> "",
          reason |-> ""]
    ELSE [err |-> NoErr, cause |-> "", code |-> resp.body.code,
          reason |-> resp.body.reason]

\* Mutant: the body of a HEAD response is decoded like any other.
parseError_DecodesHead(method, url, resp) ==
    LET r == readBodyReply(resp)
    IN IF r.err # NoErr
       THEN ServerErr(method, url, resp.status,
                      "unknown, couldn't decode CouchDB error: " \o r.cause,
                      "unknown, couldn't decode CouchDB error: " \o r.cause)
       ELSE ServerErr(method, url, resp.status, r.code, r.reason)

parseError(method, url, resp) ==
    IF method # "HEAD"
    THEN LET r == readBodyReply(resp)
             unknown == "unknown, couldn't decode CouchDB error: " \o r.cause
         IN IF r.err # NoErr
            THEN ServerErr(method, url, resp.status, unknown, unknown)
            ELSE ServerErr(method, url, resp.status, r.code, r.reason)
    ELSE ServerErr(method, url, resp.status, "", "")

\* Whether parseError closed the response body (readBody's deferred Close).
parseErrorCloses(method) == method # "HEAD"

\* Mutant: status 400 is not yet an error.
request_Above400(method, pth, ex) ==
    IF ex.neterr
    THEN [resp |-> NoResp, err |-> PlainErr("transport"), got |-> FALSE, closed |-> FALSE]
    ELSE IF ex.resp.status > 400
    THEN [resp |-> NoResp, err |-> parseError(method, Prefix \o pth, ex.resp),
          got |-> TRUE, closed |-> parseErrorCloses(method)]
    ELSE [resp |-> ex.resp, err |-> NoErr, got |-> TRUE, closed |-> FALSE]

\* transport.request, after the request was built: ex is the exchange's result.
\* got: a response was received; closed: its body has been closed.
request(method, pth, ex) ==
    IF ex.neterr
    THEN [resp |-> NoResp, err |-> PlainErr("transport"), got |-> FALSE, closed |-> FALSE]
    ELSE IF ex.resp.status >= 400
    THEN [resp |-> NoResp, err |-> parseError(method, Prefix \o pth, ex.resp),
          got |-> TRUE, closed |-> parseErrorCloses(method)]
    ELSE [resp |-> ex.resp, err |-> NoErr, got |-> TRUE, closed |-> FALSE]

\* transport.closedRequest: on success the body is drained and closed.
closedRequest(method, pth, ex) ==
    LET r == request(method, pth, ex)
    IN IF r.err = NoErr THEN [r EXCEPT !.closed = TRUE] ELSE r

\* Mutant: the header value is returned with its quotes.
responseRev_Unstripped(r) ==
    IF r.err # NoErr THEN [rev |-> <<>>, err |-> r.err, panic |-> FALSE]
    ELSE IF r.resp.etag = <<>>
    THEN [rev |-> <<>>, err |-> PlainErr("protocol"), panic |-> FALSE]
    ELSE [rev |-> r.resp.etag, err |-> NoErr, panic |-> FALSE]

\* responseRev: etag[1 : len(etag)-1]; the slice expression panics when the
\* header value has a single character.
responseRev(r) ==
    IF r.err # NoErr THEN [rev |-> <<>>, err |-> r.err, panic |-> FALSE]
    ELSE IF r.resp.etag = <<>>
    THEN [rev |-> <<>>, err |-> PlainErr("protocol"), panic |-> FALSE]
    ELSE IF Len(r.resp.etag) < 2
    THEN [rev |-> <<>>, err |-> NoErr, panic |-> TRUE]
    ELSE [rev |-> SubSeq(r.resp.etag, 2, Len(r.resp.etag) - 1), err |-> NoErr,
          panic |-> FALSE]

(***************************************************************************)
(* Design documents                                                        *)
(***************************************************************************)
Design(rev, views) == [Rev |-> rev, Views |-> views]

\* &Design{}
EmptyDesign == Design(<<>>, "")

\* The content checksum of the view definitions.
ViewChecksum(views) ==
    CASE views = "v1" -> "sum-a"
      [] views = "v2" -> "sum-b"
      [] OTHER -> "sum-0"

\* readBody into a *Design.
readBodyDesign(resp) ==
    IF resp.body.kind \in {"junk", "none"}
    THEN [err |-> PlainErr("decode"), doc |-> EmptyDesign]
    ELSE [err |-> NoErr, doc |-> Design(resp.body.rev, resp.body.views)]

\* ContextAwareDB.Get with nil options, decoding into a *Design.
Get(id, ex) ==
    LET pth == path(<<DBName, id>>)
        r == request("GET", pth, ex)
    IN IF r.err # NoErr
       THEN [err |-> r.err, doc |-> EmptyDesign, url |-> Prefix \o pth]
       ELSE LET b == readBodyDesign(r.resp)
            IN [err |-> b.err, doc |-> b.doc, url |-> Prefix \o pth]

\* ContextAwareDB.Put: the request it sends, and what it makes of the exchange.
PutURL(id, rev) == Prefix \o revpath(rev, <<DBName, id>>)
Put(id, rev, ex) == responseRev(closedRequest("PUT", revpath(rev, <<DBName, id>>), ex))

\* ContextAwareDB.Rev and ContextAwareDB.Delete.
Rev(id, ex) == responseRev(closedRequest("HEAD", path(<<DBName, id>>), ex))
Delete(id, rev, ex) == responseRev(closedRequest("DELETE", revpath(rev, <<DBName, id>>), ex))

(***************************************************************************)
(* The server, as CouchDB answers                                          *)
(***************************************************************************)
GetOutcomes == {"ok", "net", "s500", "junk"}
PutOutcomes == {"ok", "net", "lost", "noetag"}

ServeGet(out) ==
    CASE out = "net" -> NetFail
      [] out = "s500" -> Answer(Resp(500, <<>>, Body("junk", <<>>, "", "", "")))
      [] out = "junk" -> Answer(Resp(200, <<>>, Body("junk", <<>>, "", "", "")))
      [] OTHER ->
            IF srvRev = 0
            THEN Answer(Resp(404, <<>>, Body("err", <<>>, "", "not_found", "missing")))
            ELSE Answer(Resp(200, Quoted(RevStr(srvRev)),
                             Body("doc", RevStr(srvRev), srvViews, "", "")))

\* The rev parameter of a request URL ("" when the URL has no query).
UrlRev(url) ==
    IF \E i \in 1..Len(url) : url[i] = "?"
    THEN LET i == CHOOSE i \in 1..Len(url) : url[i] = "?"
         IN SubSeq(url, i + 5, Len(url))
    ELSE <<>>

\* The server applies a PUT only when the rev precondition names its
\* current revision (none for a document that does not exist yet).
PutAccepted(url) == UrlRev(url) = RevStr(srvRev)

\* Whether the server sees the PUT at all.
PutReaches(out) == out # "net"

ServePut(url, out) ==
    CASE out \in {"net", "lost"} -> NetFail
      [] OTHER ->
            IF PutAccepted(url)
            THEN Answer(Resp(201,
                             IF out = "noetag" THEN <<>> ELSE Quoted(RevStr(srvRev + 1)),
                             Body("ok", RevStr(srvRev + 1), "", "", "")))
            ELSE Answer(Resp(409, <<>>, Body("err", <<>>, "", "conflict", "conflict")))

(***************************************************************************)
(* couchdb.go: SyncDesign, in two steps around its two exchanges           *)
(***************************************************************************)
\* Mutant: the checksums are never compared, every sync writes.
SyncDesignFetch_AlwaysPut(dsg, g) ==
    IF g.err # NoErr /\ ~NotFound(g.err).value
    THEN [done |-> TRUE, err |-> g.err, Rev |-> dsg.Rev, put |-> <<>>]
    ELSE [done |-> FALSE, err |-> NoErr, Rev |-> <<>>, put |-> g.doc.Rev]

\* Mutant: the PUT is addressed with the local design's old revision.
SyncDesignFetch_LocalRev(dsg, g) ==
    IF g.err # NoErr /\ ~NotFound(g.err).value
    THEN [done |-> TRUE, err |-> g.err, Rev |-> dsg.Rev, put |-> <<>>]
    ELSE IF g.doc.Rev # <<>> /\ ViewChecksum(dsg.Views) = ViewChecksum(g.doc.Views)
    THEN [done |-> TRUE, err |-> NoErr, Rev |-> g.doc.Rev, put |-> <<>>]
    ELSE [done |-> FALSE, err |-> NoErr, Rev |-> <<>>, put |-> dsg.Rev]

\* Mutant: the local revision is cleared before the GET's error is looked at.
SyncDesignFetch_ClearFirst(dsg, g) ==
    IF g.err # NoErr /\ ~NotFound(g.err).value
    THEN [done |-> TRUE, err |-> g.err, Rev |-> <<>>, put |-> <<>>]
    ELSE IF g.doc.Rev # <<>> /\ ViewChecksum(dsg.Views) = ViewChecksum(g.doc.Views)
    THEN [done |-> TRUE, err |-> NoErr, Rev |-> g.doc.Rev, put |-> <<>>]
    ELSE [done |-> FALSE, err |-> NoErr, Rev |-> <<>>, put |-> g.doc.Rev]

\* Mutant: the local revision is not cleared before the PUT.
SyncDesignFetch_KeepRev(dsg, g) ==
    IF g.err # NoErr /\ ~NotFound(g.err).value
    THEN [done |-> TRUE, err |-> g.err, Rev |-> dsg.Rev, put |-> <<>>]
    ELSE IF g.doc.Rev # <<>> /\ ViewChecksum(dsg.Views) = ViewChecksum(g.doc.Views)
    THEN [done |-> TRUE, err |-> NoErr, Rev |-> g.doc.Rev, put |-> <<>>]
    ELSE [done |-> FALSE, err |-> NoErr, Rev |-> dsg.Rev, put |-> g.doc.Rev]

\* Mutant: a failed GET does not end the call.
SyncDesignFetch_PutAfterFailure(dsg, g) ==
    IF g.doc.Rev # <<>> /\ ViewChecksum(dsg.Views) = ViewChecksum(g.doc.Views)
    THEN [done |-> TRUE, err |-> NoErr, Rev |-> g.doc.Rev, put |-> <<>>]
    ELSE [done |-> FALSE, err |-> NoErr, Rev |-> <<>>, put |-> g.doc.Rev]

\* From the GET's result to the return or to the PUT: Rev is the local
\* design's revision afterwards, put the revision handed to Put.
SyncDesignFetch(dsg, g) ==
    IF g.err # NoErr /\ ~NotFound(g.err).value
    THEN [done |-> TRUE, err |-> g.err, Rev |-> dsg.Rev, put |-> <<>>]
    ELSE IF g.doc.Rev # <<>> /\ ViewChecksum(dsg.Views) = ViewChecksum(g.doc.Views)
    THEN [done |-> TRUE, err |-> NoErr, Rev |-> g.doc.Rev, put |-> <<>>]
    ELSE [done |-> FALSE, err |-> NoErr, Rev |-> <<>>, put |-> g.doc.Rev]

\* Mutant: the error of Put is dropped.
SyncDesignStore_IgnoreError(rev, p) == [err |-> NoErr, Rev |-> p.rev]

\* From Put's result to the return: rev is the local design's revision as
\* the first step left it.
SyncDesignStore(rev, p) ==
    IF p.err # NoErr
    THEN [err |-> p.err, Rev |-> rev]
    ELSE [err |-> NoErr, Rev |-> p.rev]

\* Calls started so far, over all callers.
Calls == Cardinality({c \in Callers : pc[c] # "idle"}) + Len(hist[1]) + Len(hist[2])

NoCall ==
    [views |-> "", rev0 |-> <<>>, getErr |-> NoErr, remote |-> EmptyDesign,
     faulted |-> FALSE]

\* The record of a completed call.
\* views, rev0: the local design as the call found it; getErr, remote: what
\* Get returned; puts, putUrl: the PUT exchanges and the URL of the last;
\* putErr, putRev: what Put returned; err: what SyncDesign returned; rev: the
\* local design's Rev at the return; faulted: an exchange of the call failed
\* for a reason other than the server's own answer.
Record(base, puts, putUrl, put, err, rev, faulted) ==
    [views |-> base.views, rev0 |-> base.rev0, getErr |-> base.getErr,
     remote |-> base.remote, puts |-> puts, putUrl |-> putUrl,
     putErr |-> put.err, putRev |-> put.rev, err |-> err, rev |-> rev,
     faulted |-> base.faulted \/ faulted]

NoPut == [rev |-> <<>>, err |-> NoErr, panic |-> FALSE]

SyncGet(c, out) ==
    /\ SyncOnly
    /\ pc[c] = "idle"
    /\ Calls < MaxCalls
    /\ LET g == Get(d[c].ID, ServeGet(out))
           f == SyncDesignFetch(d[c], g)
           base == [views |-> d[c].Views, rev0 |-> d[c].Rev, getErr |-> g.err,
                    remote |-> g.doc, faulted |-> out # "ok"]
       IN /\ d' = [d EXCEPT ![c].Rev = f.Rev]
          /\ IF f.done
             THEN /\ hist' = [hist EXCEPT ![c] =
                                Append(@, Record(base, 0, <<>>, NoPut, f.err, d'[c].Rev, FALSE))]
                  /\ UNCHANGED <<pc, prevRev, cur>>
             ELSE /\ pc' = [pc EXCEPT ![c] = "put"]
                  /\ prevRev' = [prevRev EXCEPT ![c] = f.put]
                  /\ cur' = [cur EXCEPT ![c] = base]
                  /\ UNCHANGED hist
    /\ UNCHANGED <<srvRev, srvViews, writers, srvLog>>

SyncPut(c, out) ==
    /\ SyncOnly
    /\ pc[c] = "put"
    /\ LET url == PutURL(d[c].ID, prevRev[c])
           p == Put(d[c].ID, prevRev[c], ServePut(url, out))
           applied == PutReaches(out) /\ PutAccepted(url)
           s == SyncDesignStore(d[c].Rev, p)
       IN /\ applied => srvRev < MaxRev
          /\ srvRev' = IF applied THEN srvRev + 1 ELSE srvRev
          /\ srvViews' = IF applied THEN d[c].Views ELSE srvViews
          /\ writers' = IF applied THEN writers \cup {c} ELSE writers
          /\ srvLog' = IF applied THEN Append(srvLog, [views |-> d[c].Views, by |-> c])
                       ELSE srvLog
          /\ IF p.panic
             THEN /\ pc' = [pc EXCEPT ![c] = "panic"]
                  /\ UNCHANGED <<d, hist>>
             ELSE /\ pc' = [pc EXCEPT ![c] = "idle"]
                  /\ d' = [d EXCEPT ![c].Rev = s.Rev]
                  /\ hist' = [hist EXCEPT ![c] =
                                Append(@, Record(cur[c], 1, url, p, s.err, d'[c].Rev,
                                                 out # "ok"))]
          /\ cur' = [cur EXCEPT ![c] = NoCall]
          /\ prevRev' = [prevRev EXCEPT ![c] = <<>>]

\* Between two calls the caller alters its design definition.
Edit(c, v) ==
    /\ SyncOnly
    /\ pc[c] = "idle"
    /\ Len(hist[c]) > 0
    /\ Calls < MaxCalls
    /\ d[c].Views = hist[c][Len(hist[c])].views
    /\ v # d[c].Views
    /\ d' = [d EXCEPT ![c].Views = v]
    /\ UNCHANGED <<srvRev, srvViews, writers, srvLog, pc, prevRev, cur, hist>>

\* Another writer stores a new revision of the design document.
OtherWrite(v) ==
    /\ SyncOnly
    /\ srvRev < MaxRev
    /\ srvRev' = srvRev + 1
    /\ srvViews' = v
    /\ writers' = writers \cup {External}
    /\ srvLog' = Append(srvLog, [views |-> v, by |-> External])
    /\ UNCHANGED <<pc, d, prevRev, cur, hist>>

\* A revision the local design may carry over from another database.
ForeignRev == <<"9">>

SyncInit ==
    /\ srvRev = 0
    /\ srvViews = ""
    /\ writers = {}
    /\ srvLog = <<>>
    /\ pc = [c \in Callers |-> "idle"]
    /\ d \in {f \in [Callers -> [ID : {DesignID}, Rev : {<<>>, ForeignRev}, Views : Views]] :
                f[1].Rev = ForeignRev /\ f[1].Views = "v1" /\ f[2].Rev = <<>>}
    /\ prevRev = [c \in Callers |-> <<>>]
    /\ cur = [c \in Callers |-> NoCall]
    /\ hist = [c \in Callers |-> <<>>]

SyncNext ==
    \/ \E c \in Callers, out \in GetOutcomes : SyncGet(c, out)
    \/ \E c \in Callers, out \in PutOutcomes : SyncPut(c, out)
    \/ \E c \in Callers, v \in Views : Edit(c, v)
    \/ \E v \in Views : OtherWrite(v)

(***************************************************************************)
(* http.go: one call of transport.request, and the predicates on errors    *)
(***************************************************************************)
Methods == {"GET", "HEAD", "POST", "PUT", "DELETE"}
Statuses == MinStatus..MaxStatus

\* The bodies a response may carry.
Bodies ==
    {Body("err", <<>>, "", "not_found", "missing"), Body("junk", <<>>, "", "", ""), NoBody}

\* Everything the exchange capability may hand back.
Exchanges == {NetFail} \cup {Answer(Resp(st, <<>>, b)) : st \in Statuses, b \in Bodies}

NoRequest == [method |-> "", url |-> <<>>, ctype |-> FALSE, hasBody |-> FALSE]
NoReturn == [resp |-> NoResp, err |-> NoErr, got |-> FALSE, closed |-> FALSE]
NoProbe ==
    [err |-> NoErr, code |-> 0, ErrorStatus |-> "", NotFound |-> "",
     Unauthorized |-> "", Conflict |-> ""]

\* Mutant: the content type is set only on a request with a body.
BuildRequest_BodyOnly(method, pth, hasBody) ==
    [method |-> method, url |-> Prefix \o pth, ctype |-> (method # "GET" /\ hasBody),
     hasBody |-> hasBody]

\* The request as transport.request sends it: the URL is prefix + path, and
\* the JSON content type is set for every method but GET.
BuildRequest(method, pth, hasBody) ==
    [method |-> method, url |-> Prefix \o pth, ctype |-> method # "GET",
     hasBody |-> hasBody]

HttpInit ==
    /\ hreq = NoRequest
    /\ hex = NetFail
    /\ hret = NoReturn
    /\ probe = NoProbe

\* transport.request(ctx, method, path, body), the exchange giving ex.
Request(method, hasBody, ex) ==
    /\ HttpOnly
    /\ hreq' = BuildRequest(method, path(<<DBName>>), hasBody)
    /\ hex' = ex
    /\ hret' = request(method, path(<<DBName>>), ex)
    /\ probe' = NoProbe

\* What a caller sees of a predicate: "true", "false", or "panic".
Outcome(r) == IF r.panic THEN "panic" ELSE IF r.value THEN "true" ELSE "false"

Classify(err, code) ==
    [err |-> err, code |-> code, ErrorStatus |-> Outcome(ErrorStatus(err, code)),
     NotFound |-> Outcome(NotFound(err)), Unauthorized |-> Outcome(Unauthorized(err)),
     Conflict |-> Outcome(Conflict(err))]

\* The status codes the predicates are asked about.
ProbeCodes == {0, 401, 404, 409, 412}

\* The error values a caller may hold besides those request returned.
CallerErrs ==
    {NoErr, NilPtrErr, PlainErr("transport"), PlainErr("decode"), PlainErr("protocol"),
     PlainErr("encoding")}
    \cup {ServerErr("GET", <<>>, st, "", "") : st \in ProbeCodes}

\* The predicates applied to the error the last request returned.
ProbeReturned(code) ==
    /\ HttpOnly
    /\ probe' = Classify(hret.err, code)
    /\ UNCHANGED <<hreq, hex, hret>>

\* The predicates applied to an error value the caller built.
ProbeValue(err, code) ==
    /\ HttpOnly
    /\ probe' = Classify(err, code)
    /\ UNCHANGED <<hreq, hex, hret>>

\* The caller drops what it was handed and goes on to its next call.
Forget ==
    /\ HttpOnly
    /\ hreq # NoRequest \/ probe # NoProbe
    /\ hreq' = NoRequest
    /\ hex' = NetFail
    /\ hret' = NoReturn
    /\ probe' = NoProbe

\* A caller makes one call, may classify the error it got back, and goes on.
HttpNext ==
    \/ /\ hreq = NoRequest /\ probe = NoProbe
       /\ \E m \in Methods, b \in BOOLEAN, ex \in Exchanges : Request(m, b, ex)
    \/ /\ hreq # NoRequest /\ probe = NoProbe
       /\ \E code \in ProbeCodes \cup {hret.err.status} : ProbeReturned(code)
    \/ /\ hreq = NoRequest /\ probe = NoProbe
       /\ \E err \in CallerErrs, code \in ProbeCodes : ProbeValue(err, code)
    \/ Forget

(***************************************************************************)
(* http.go, client: the authentication strategy under transport.mu         *)
(***************************************************************************)
Procs == {1, 2, 3}
Handles == {1, 2}       \* the client and a DB derived from it
Strategies == {"a", "b"}
NoAuth == "nil"
AuthValues == Strategies \cup {NoAuth}

\* strings.TrimRight(str, ch)
RECURSIVE TrimRight(_, _)
TrimRight(str, ch) ==
    IF str # <<>> /\ str[Len(str)] = ch THEN TrimRight(SubSeq(str, 1, Len(str) - 1), ch)
    ELSE str

\* newTransport: the prefix without trailing slashes, the strategy given at
\* construction, mu unlocked.
\* writer is the goroutine that holds mu for writing or has announced that
\* it will (no new reader gets in from then on), 0 for none.
newTransport(prefix, auth) ==
    [prefix |-> TrimRight(prefix, "/"), auth |-> auth, readers |-> {}, writer |-> 0]

\* Mutant: DB hands out a copy of the transport.
DB_OwnTransport(h, hs, ts) ==
    [handles |-> Append(hs, Len(ts) + 1),
     transports |-> Append(ts, newTransport(ts[hs[h]].prefix, ts[hs[h]].auth))]

\* ContextAwareClient.DB: the new handle points to the client's transport.
DB(h, hs, ts) == [handles |-> Append(hs, hs[h]), transports |-> ts]

\* Mutant: setAuth assigns without taking the lock.
setAuthEntry_NoLock == "write"

\* Where setAuth starts: at t.mu.Lock().
setAuthEntry == "lock"

\* Mutant: newRequest returns with the read lock still held.
Released_Held(rs, p) == rs

\* defer t.mu.RUnlock(): the holders of the read lock once newRequest returns.
Released(rs, p) == rs \ {p}

\* Where newRequest goes once the request is built: to t.mu.RLock().
newRequestEntry == "rlock"

NoJob ==
    [h |-> 0, tr |-> 0, a |-> NoAuth, checked |-> NoAuth, deco |-> <<>>,
     allowed |-> {}, during |-> {}, overl |-> {}]

Setting == {"lock", "drain", "write", "unlock"}
Building == {"rlock", "check", "add", "runlock"}

AuthInit ==
    /\ transports \in {<<newTransport(Prefix, a)>> : a \in {NoAuth, "a"}}
    /\ handles = <<1>>
    /\ apc = [p \in Procs |-> "idle"]
    /\ job = [p \in Procs |-> NoJob]
    /\ latest = {transports[1].auth}
    /\ ops = 0

\* Goroutines are anonymous: a new call runs on the first idle one.
Free(p) == apc[p] = "idle" /\ \A q \in Procs : q < p => apc[q] # "idle"

\* c.DB(name)
OpenDB ==
    /\ AuthOnly
    /\ Len(handles) < Cardinality(Handles)
    /\ LET r == DB(1, handles, transports)
       IN handles' = r.handles /\ transports' = r.transports
    /\ UNCHANGED <<apc, job, latest, ops>>

\* A request through handle h enters newRequest; http.NewRequest may fail,
\* and then there is no request.
NewRequestCall(p, h, ok) ==
    /\ AuthOnly
    /\ Free(p)
    /\ ops < MaxOps
    /\ ops' = ops + 1
    /\ IF ok
       THEN /\ apc' = [apc EXCEPT ![p] = newRequestEntry]
            /\ job' = [job EXCEPT ![p] =
                         [NoJob EXCEPT !.h = h, !.tr = handles[h],
                                       !.allowed = latest \cup {job[q].a : q \in {q \in Procs : apc[q] \in Setting}},
                                       !.during = {transports[1].auth}]]
       ELSE UNCHANGED <<apc, job>>
    /\ UNCHANGED <<transports, handles, latest>>

\* t.mu.RLock(): not while a writer holds the lock or waits for it.
RLock(p) ==
    /\ AuthOnly
    /\ apc[p] = "rlock"
    /\ transports[job[p].tr].writer = 0
    /\ transports' = [transports EXCEPT ![job[p].tr].readers = @ \cup {p}]
    /\ apc' = [apc EXCEPT ![p] = "check"]
    /\ UNCHANGED <<handles, job, latest, ops>>

\* if t.auth != nil
CheckAuth(p) ==
    /\ AuthOnly
    /\ apc[p] = "check"
    /\ LET v == transports[job[p].tr].auth
       IN /\ job' = [job EXCEPT ![p].checked = v]
          /\ apc' = [apc EXCEPT ![p] = IF v # NoAuth THEN "add" ELSE "runlock"]
    /\ UNCHANGED <<transports, handles, latest, ops>>

\* t.auth.AddAuth(req): a call through a nil interface panics, and the
\* deferred RUnlock runs.
AddAuth(p) ==
    /\ AuthOnly
    /\ apc[p] = "add"
    /\ LET v == transports[job[p].tr].auth
       IN IF v = NoAuth
          THEN /\ apc' = [apc EXCEPT ![p] = "panic"]
               /\ transports' = [transports EXCEPT ![job[p].tr].readers = Released(@, p)]
               /\ UNCHANGED job
          ELSE /\ apc' = [apc EXCEPT ![p] = "runlock"]
               /\ job' = [job EXCEPT ![p].deco = Append(@, v)]
               /\ UNCHANGED transports
    /\ UNCHANGED <<handles, latest, ops>>

\* The deferred t.mu.RUnlock(); newRequest returns the request.
RUnlock(p) ==
    /\ AuthOnly
    /\ apc[p] = "runlock"
    /\ transports' = [transports EXCEPT ![job[p].tr].readers = Released(@, p)]
    /\ apc' = [apc EXCEPT ![p] = "exchange"]
    /\ UNCHANGED <<handles, job, latest, ops>>

\* t.http.Do(req) and the return of the request.
Exchange(p) ==
    /\ AuthOnly
    /\ apc[p] = "exchange"
    /\ apc' = [apc EXCEPT ![p] = "idle"]
    /\ job' = [job EXCEPT ![p] = NoJob]
    /\ UNCHANGED <<transports, handles, latest, ops>>

\* c.SetAuth(a) is called.
SetAuthCall(p, a) ==
    /\ AuthOnly
    /\ Free(p)
    /\ ops < MaxOps
    /\ ops' = ops + 1
    /\ apc' = [apc EXCEPT ![p] = setAuthEntry]
    /\ job' = [q \in Procs |->
                 IF q = p THEN [NoJob EXCEPT !.a = a]
                 ELSE IF apc[q] \in Building THEN [job[q] EXCEPT !.allowed = @ \cup {a}]
                 ELSE job[q]]
    /\ UNCHANGED <<transports, handles, latest>>

\* t.mu.Lock(), first half: one writer at a time, new readers are held off.
LockAnnounce(p) ==
    /\ AuthOnly
    /\ apc[p] = "lock"
    /\ transports[handles[1]].writer = 0
    /\ transports' = [transports EXCEPT ![handles[1]].writer = p]
    /\ apc' = [apc EXCEPT ![p] = "drain"]
    /\ UNCHANGED <<handles, job, latest, ops>>

\* t.mu.Lock(), second half: the readers that were in have left.
LockAcquire(p) ==
    /\ AuthOnly
    /\ apc[p] = "drain"
    /\ transports[handles[1]].readers = {}
    /\ apc' = [apc EXCEPT ![p] = "write"]
    /\ UNCHANGED <<transports, handles, job, latest, ops>>

\* t.auth = a
WriteAuth(p) ==
    /\ AuthOnly
    /\ apc[p] = "write"
    /\ transports' = [transports EXCEPT ![handles[1]].auth = job[p].a]
    /\ apc' = [apc EXCEPT ![p] = "unlock"]
    /\ job' = [q \in Procs |->
                 IF apc[q] \in Building THEN [job[q] EXCEPT !.during = @ \cup {job[p].a}]
                 ELSE job[q]]
    /\ UNCHANGED <<handles, latest, ops>>

\* t.mu.Unlock(); SetAuth returns.
Unlock(p) ==
    /\ AuthOnly
    /\ apc[p] = "unlock"
    /\ transports' = [transports EXCEPT ![handles[1]].writer =
                                          IF @ = p THEN 0 ELSE @]
    /\ apc' = [apc EXCEPT ![p] = "idle"]
    /\ latest' = {job[p].a} \cup job[p].overl
    /\ job' = [q \in Procs |->
                 IF q = p THEN NoJob
                 ELSE IF apc[q] \in Setting
                 THEN [job[q] EXCEPT !.overl = (@ \cap job[p].overl) \cup {job[p].a}]
                 ELSE job[q]]
    /\ UNCHANGED <<handles, ops>>

AuthNext ==
    \/ OpenDB
    \/ \E p \in Procs, h \in 1..Len(handles), ok \in BOOLEAN : NewRequestCall(p, h, ok)
    \/ \E p \in Procs : RLock(p)
    \/ \E p \in Procs : CheckAuth(p)
    \/ \E p \in Procs : AddAuth(p)
    \/ \E p \in Procs : RUnlock(p)
    \/ \E p \in Procs : Exchange(p)
    \/ \E p \in Procs, a \in AuthValues : SetAuthCall(p, a)
    \/ \E p \in Procs : LockAnnounce(p)
    \/ \E p \in Procs : LockAcquire(p)
    \/ \E p \in Procs : WriteAuth(p)
    \/ \E p \in Procs : Unlock(p)

(***************************************************************************)
(* http.go: the option encoder                                             *)
(***************************************************************************)
\* An option value, by its reflect.Kind: "nil" (the nil interface),
\* "string" (s), "bool" (b), "int" and "uint" (n), "float" (n tenths, or NaN
\* when b), "slice" (l, of strings), "chan".
Val(kind, b, n, str, l) == [kind |-> kind, b |-> b, n |-> n, s |-> str, l |-> l]
Nil == Val("nil", FALSE, 0, <<>>, <<>>)
StrV(str) == Val("string", FALSE, 0, str, <<>>)
BoolV(b) == Val("bool", b, 0, <<>>, <<>>)
IntV(n) == Val("int", FALSE, n, <<>>, <<>>)
UintV(n) == Val("uint", FALSE, n, <<>>, <<>>)
FloatV(tenths) == Val("float", FALSE, tenths, <<>>, <<>>)
NaN == Val("float", TRUE, 0, <<>>, <<>>)
SliceV(l) == Val("slice", FALSE, 0, <<>>, l)
Chan == Val("chan", FALSE, 0, <<>>, <<>>)

Decimal == <<"0", "1", "2", "3", "4", "5", "6", "7", "8", "9">>

\* strconv.FormatUint(n, 10)
RECURSIVE FormatUint(_)
FormatUint(n) ==
    IF n < 10 THEN <<Decimal[n + 1]>>
    ELSE FormatUint(n \div 10) \o <<Decimal[(n % 10) + 1]>>

\* strconv.FormatInt(n, 10)
FormatInt(n) == IF n < 0 THEN <<"-">> \o FormatUint(-n) ELSE FormatUint(n)

\* strconv.FormatFloat(x, 'f', -1, 64) of x = tenths / 10.
FormatFloat(v) ==
    IF v.b THEN <<"N", "a", "N">>
    ELSE LET m == IF v.n < 0 THEN -v.n ELSE v.n
             body == IF m % 10 = 0 THEN FormatUint(m \div 10)
                     ELSE FormatUint(m \div 10) \o <<".">> \o FormatUint(m % 10)
         IN IF v.n < 0 THEN <<"-">> \o body ELSE body

\* strconv.FormatBool
FormatBool(b) == IF b THEN <<"t", "r", "u", "e">> ELSE <<"f", "a", "l", "s", "e">>

\* encoding/json: a string literal; quotes and backslashes are escaped, and
\* so is '&'.
RECURSIVE JsonChars(_)
JsonChars(str) ==
    IF str = <<>> THEN <<>>
    ELSE (CASE Head(str) = "\"" -> <<"\\", "\"">>
            [] Head(str) = "\\" -> <<"\\", "\\">>
            [] Head(str) = "&"  -> <<"\\", "u", "0", "0", "2", "6">>
            [] OTHER -> <<Head(str)>>) \o JsonChars(Tail(str))

JsonString(str) == Quoted(JsonChars(str))

RECURSIVE JsonList(_)
JsonList(l) ==
    IF l = <<>> THEN <<>>
    ELSE IF Len(l) = 1 THEN JsonString(l[1])
    ELSE JsonString(l[1]) \o <<",">> \o JsonList(Tail(l))

\* json.Marshal(v): the text, or an error for a value JSON cannot hold.
Marshal(v) ==
    CASE v.kind = "nil"    -> [err |-> FALSE, text |-> <<"n", "u", "l", "l">>]
      [] v.kind = "string" -> [err |-> FALSE, text |-> JsonString(v.s)]
      [] v.kind = "bool"   -> [err |-> FALSE, text |-> FormatBool(v.b)]
      [] v.kind = "int"    -> [err |-> FALSE, text |-> FormatInt(v.n)]
      [] v.kind = "uint"   -> [err |-> FALSE, text |-> FormatUint(v.n)]
      [] v.kind = "float"  -> IF v.b THEN [err |-> TRUE, text |-> <<>>]
                              ELSE [err |-> FALSE, text |-> FormatFloat(v)]
      [] v.kind = "slice"  -> [err |-> FALSE, text |-> <<"[">> \o JsonList(v.l) \o <<"]">>]
      [] OTHER             -> [err |-> TRUE, text |-> <<>>]

\* Mutant: a string is written as it is.
encval_RawString(v) ==
    IF v.kind = "nil" THEN [err |-> TRUE, text |-> <<>>]
    ELSE CASE v.kind = "string" -> [err |-> FALSE, text |-> v.s]
           [] v.kind = "bool"   -> [err |-> FALSE, text |-> FormatBool(v.b)]
           [] v.kind = "int"    -> [err |-> FALSE, text |-> FormatInt(v.n)]
           [] v.kind = "uint"   -> [err |-> FALSE, text |-> FormatUint(v.n)]
           [] v.kind = "float"  -> [err |-> FALSE, text |-> FormatFloat(v)]
           [] OTHER             -> [err |-> TRUE, text |-> <<>>]

\* Mutant: a nil value is written as the empty string.
encval_NilAsEmpty(v) ==
    CASE v.kind = "string" -> [err |-> FALSE, text |-> QueryEscape(v.s)]
      [] v.kind = "bool"   -> [err |-> FALSE, text |-> FormatBool(v.b)]
      [] v.kind = "int"    -> [err |-> FALSE, text |-> FormatInt(v.n)]
      [] v.kind = "uint"   -> [err |-> FALSE, text |-> FormatUint(v.n)]
      [] v.kind = "float"  -> [err |-> FALSE, text |-> FormatFloat(v)]
      [] v.kind = "nil"    -> [err |-> FALSE, text |-> <<>>]
      [] OTHER             -> [err |-> TRUE, text |-> <<>>]

\* encval: the text written for a scalar value, or an error for nil and for
\* every other kind.
encval(v) ==
    IF v.kind = "nil" THEN [err |-> TRUE, text |-> <<>>]
    ELSE CASE v.kind = "string" -> [err |-> FALSE, text |-> QueryEscape(v.s)]
           [] v.kind = "bool"   -> [err |-> FALSE, text |-> FormatBool(v.b)]
           [] v.kind = "int"    -> [err |-> FALSE, text |-> FormatInt(v.n)]
           [] v.kind = "uint"   -> [err |-> FALSE, text |-> FormatUint(v.n)]
           [] v.kind = "float"  -> [err |-> FALSE, text |-> FormatFloat(v)]
           [] OTHER             -> [err |-> TRUE, text |-> <<>>]

getJsonKeys ==
    << <<"o", "p", "e", "n", "_", "r", "e", "v", "s">>,
       <<"a", "t", "t", "s", "_", "s", "i", "n", "c", "e">> >>

viewJsonKeys ==
    << <<"s", "t", "a", "r", "t", "k", "e", "y">>,
       <<"s", "t", "a", "r", "t", "_", "k", "e", "y">>,
       <<"k", "e", "y">>,
       <<"e", "n", "d", "k", "e", "y">>,
       <<"e", "n", "d", "_", "k", "e", "y">>,
       <<"k", "e", "y", "s">> >>

\* The loop over jskeys in encopts.
isjson(k, jskeys) == \E i \in 1..Len(jskeys) : jskeys[i] = k

\* encopts from the point where the keys in order are still to be written
\* and buf holds what has been.
RECURSIVE encoptsLoop(_, _, _, _, _)
encoptsLoop(opts, jskeys, order, buf, amp) ==
    IF order = <<>> THEN [query |-> buf, err |-> FALSE, key |-> <<>>]
    ELSE LET k == Head(order)
             head == (IF amp THEN buf \o <<"&">> ELSE buf) \o QueryEscape(k) \o <<"=">>
             r == IF isjson(k, jskeys)
                  THEN LET m == Marshal(opts[k])
                       IN [err |-> m.err, text |-> QueryEscape(m.text)]
                  ELSE encval(opts[k])
         IN IF r.err THEN [query |-> <<>>, err |-> TRUE, key |-> k]
            ELSE encoptsLoop(opts, jskeys, Tail(order), head \o r.text, TRUE)

\* encopts(opts, jskeys), the map being iterated in the given order.
encopts(opts, jskeys, order) == encoptsLoop(opts, jskeys, order, <<"?">>, FALSE)

\* Mutant: options that do not encode are left out and the path is returned.
optpath_DropsOptions(opts, jskeys, order, segs) ==
    IF DOMAIN opts # {}
    THEN LET os == encopts(opts, jskeys, order)
         IN IF os.err THEN [path |-> path(segs), err |-> FALSE, key |-> <<>>]
            ELSE [path |-> path(segs) \o os.query, err |-> FALSE, key |-> <<>>]
    ELSE [path |-> path(segs), err |-> FALSE, key |-> <<>>]

\* optpath(opts, jskeys, segs...)
optpath(opts, jskeys, order, segs) ==
    IF DOMAIN opts # {}
    THEN LET os == encopts(opts, jskeys, order)
         IN IF os.err THEN [path |-> <<>>, err |-> TRUE, key |-> os.key]
            ELSE [path |-> path(segs) \o os.query, err |-> FALSE, key |-> <<>>]
    ELSE [path |-> path(segs), err |-> FALSE, key |-> <<>>]

\* The operations that take options.
Endpoints == {"Get", "BulkGet", "View", "PostView", "AllDocs"}

\* Mutant: every operation passes the view keys.
JsonKeysFor_AlwaysView(op) == viewJsonKeys

\* The jskeys argument each operation passes to optpath.
JsonKeysFor(op) == IF op \in {"Get", "BulkGet"} THEN getJsonKeys ELSE viewJsonKeys

\* The segs arguments each operation passes to optpath: document "t", design
\* document "t", view "v".
SegmentsFor(op) ==
    CASE op = "Get"     -> <<DBName, <<"t">>>>
      [] op = "BulkGet" -> <<DBName, <<"_", "b", "u", "l", "k", "_", "g", "e", "t">>>>
      [] op = "AllDocs" -> <<DBName, <<"_", "a", "l", "l", "_", "d", "o", "c", "s">>>>
      [] OTHER          -> <<DBName, <<"_", "d", "e", "s", "i", "g", "n">>, <<"t">>,
                             <<"_", "v", "i", "e", "w">>, <<"v">>>>

\* The option names callers use: one JSON key of each family, and one that
\* is in neither and needs escaping.
OptKeys ==
    {<<"k", "e", "y">>, <<"o", "p", "e", "n", "_", "r", "e", "v", "s">>,
     <<"a", "&", "=", "%", "+", " ">>}

OptValues ==
    {Nil, StrV(<<>>), StrV(<<"a", "&", " ", "\"", "=", "%", "+">>), BoolV(TRUE), BoolV(FALSE), IntV(-1),
     IntV(42), UintV(7), FloatV(15), FloatV(-20), NaN, SliceV(<<<<"a">>, <<"b">>>>), Chan}

\* The option mappings, and the orders in which Go may iterate one.
Mappings ==
    UNION {[D -> OptValues] : D \in {D \in SUBSET OptKeys : Cardinality(D) <= MaxKeys}}

Orders(D) == {o \in [1..Cardinality(D) -> D] : \A k \in D : \E i \in DOMAIN o : o[i] = k}

NoOpts == [k \in {} |-> Nil]
NoEnc == [called |-> FALSE, path |-> <<>>, err |-> FALSE, key |-> <<>>]

EncInit ==
    /\ eop = ""
    /\ eopts = NoOpts
    /\ ejs = <<>>
    /\ eorder = <<>>
    /\ eret = NoEnc

\* An operation builds the path of its request from the options.
OptPath(op, opts, order) ==
    /\ EncOnly
    /\ eop' = op
    /\ eopts' = opts
    /\ ejs' = JsonKeysFor(op)
    /\ eorder' = order
    /\ eret' = [called |-> TRUE] @@ optpath(opts, JsonKeysFor(op), order, SegmentsFor(op))

\* The caller goes on to its next call.
EncForget ==
    /\ EncOnly
    /\ eret.called
    /\ eop' = ""
    /\ eopts' = NoOpts
    /\ ejs' = <<>>
    /\ eorder' = <<>>
    /\ eret' = NoEnc

EncNext ==
    \/ /\ ~eret.called
       /\ \E op \in Endpoints, opts \in Mappings :
              \E order \in Orders(DOMAIN opts) : OptPath(op, opts, order)
    \/ EncForget

(***************************************************************************)
(* http_test.go: the bulk operations                                       *)
(***************************************************************************)
\* A JSON object is a record with the members it has.  Field is what
\* json.Unmarshal leaves in a struct field: the member, or the zero value.
Field(obj, name, zero) == IF name \in DOMAIN obj THEN obj[name] ELSE zero

DocIDs == {"a", "b"}

\* The entries of a _bulk_docs reply, as CouchDB writes them.
ItemOk(id, rev) == [id |-> id, ok |-> TRUE, rev |-> rev]
ItemFail(id, error, reason) == [id |-> id, error |-> error, reason |-> reason]

ServerItems ==
    {ItemOk(id, "1-x") : id \in DocIDs} \cup {ItemFail(id, "conflict", "clash") : id \in DocIDs}

\* Sequences of at most MaxItems elements of S.
UpTo(S) == UNION {[1..n -> S] : n \in 0..MaxItems}

\* A body holding a JSON array of objects.
ListBody(items) == [kind |-> "list", items |-> items]

\* BulkDocsResp
BulkDocsResp(ok, id, rev, error, reason) ==
    [OK |-> ok, ID |-> id, Rev |-> rev, Error |-> error, Reason |-> reason]

\* json.Unmarshal of one array element into a BulkDocsResp.
DecodeBulkDocsResp(obj) ==
    BulkDocsResp(Field(obj, "ok", FALSE), Field(obj, "id", ""), Field(obj, "rev", ""),
                 Field(obj, "error", ""), Field(obj, "reason", ""))

\* A slice: nil, or the elements.
NilSlice == [nil |-> TRUE, items |-> <<>>]
SliceOf(items) == [nil |-> FALSE, items |-> items]

\* Mutant: the entries of failed documents are left out.
readBodyBulkDocs_OnlyOk(resp) ==
    IF resp.body.kind # "list" THEN [err |-> PlainErr("decode"), res |-> NilSlice]
    ELSE [err |-> NoErr,
          res |-> SliceOf(SelectSeq([i \in 1..Len(resp.body.items) |->
                                         DecodeBulkDocsResp(resp.body.items[i])],
                                    LAMBDA e : e.OK))]

\* readBody into a *[]BulkDocsResp: anything but a JSON array is an error.
readBodyBulkDocs(resp) ==
    IF resp.body.kind # "list" THEN [err |-> PlainErr("decode"), res |-> NilSlice]
    ELSE [err |-> NoErr,
          res |-> SliceOf([i \in 1..Len(resp.body.items) |->
                              DecodeBulkDocsResp(resp.body.items[i])])]

BulkDocsPath == revpath(<<>>, <<DBName, <<"_", "b", "u", "l", "k", "_", "d", "o", "c", "s">>>>)

\* A result of a bulk call.  sent: the exchange took place; panic: the call
\* did not return.
BulkReturn(res, err, sent, panic) ==
    [res |-> res, notFound |-> NilSlice, err |-> err, sent |-> sent, panic |-> panic]

\* DB.BulkDocs(docs...): the error of db.request is overwritten unread, and
\* readBody is handed the response, which is nil when the request failed:
\* its first statement, defer resp.Body.Close(), dereferences it.
BulkDocs(docs, encodable, ex) ==
    IF ~encodable THEN BulkReturn(NilSlice, PlainErr("encoding"), FALSE, FALSE)
    ELSE LET r == request("POST", BulkDocsPath, ex)
         IN IF r.err # NoErr THEN BulkReturn(NilSlice, NoErr, TRUE, TRUE)
            ELSE LET b == readBodyBulkDocs(r.resp)
                 IN IF b.err # NoErr THEN BulkReturn(NilSlice, b.err, TRUE, FALSE)
                    ELSE BulkReturn(b.res, NoErr, TRUE, FALSE)

\* What the server may answer to a bulk request.
ErrorBodies == {Body("err", <<>>, "", "conflict", "clash"), Body("junk", <<>>, "", "", "")}

BulkDocsExchanges ==
    {NetFail}
    \cup {Answer(Resp(st, <<>>, b)) : st \in {400, 409, 500}, b \in ErrorBodies}
    \cup {Answer(Resp(201, <<>>, ListBody(l))) : l \in UpTo(ServerItems)}
    \cup {Answer(Resp(201, <<>>, b)) : b \in ErrorBodies \cup {NoBody}}

\* The entries of the docs array of a _bulk_get result: a document under
\* "ok" (fits: it decodes into the caller's document type), or an error
\* object under "error".
WrapOk(id, fits) == [ok |-> [id |-> id, fits |-> fits]]
WrapError(id) == [error |-> [id |-> id, error |-> "not_found", reason |-> "missing"]]

\* bulkGetRes
bulkGetRes(id, docs) == [Id |-> id, Docs |-> docs]

\* The results CouchDB may list for a document.
DocsFor(id) ==
    {<<WrapOk(id, TRUE)>>, <<WrapOk(id, FALSE)>>, <<WrapError(id)>>,
     <<WrapError(id), WrapOk(id, TRUE)>>, <<>>}

ServerResults == UNION {{bulkGetRes(id, docs) : docs \in DocsFor(id)} : id \in DocIDs}

\* A body holding a JSON object with a results array.
ResultsBody(results) == [kind |-> "results", results |-> results]

\* readBody into a *bulkGetResp: a JSON object without results leaves
\* Results empty; anything that is no JSON object is an error.
readBodyBulkGet(resp) ==
    IF resp.body.kind = "results" THEN [err |-> NoErr, Results |-> resp.body.results]
    ELSE IF resp.body.kind \in {"junk", "none", "list"}
    THEN [err |-> PlainErr("decode"), Results |-> <<>>]
    ELSE [err |-> NoErr, Results |-> <<>>]

\* append to a slice that may be nil.
SliceAppend(sl, x) == SliceOf(Append(sl.items, x))

BulkGetReturn(docs, notFound, err, sent) ==
    [res |-> docs, notFound |-> notFound, err |-> err, sent |-> sent, panic |-> FALSE]

\* The loop of BulkGet over response.Results.
RECURSIVE BulkGetLoop(_, _, _)
BulkGetLoop(results, docs, notFound) ==
    IF results = <<>> THEN BulkGetReturn(docs, notFound, NoErr, TRUE)
    ELSE LET result == Head(results)
         IN IF Len(result.Docs) > 0
            THEN LET wrapper == result.Docs[1]
                 IN IF "error" \in DOMAIN wrapper \/ "ok" \notin DOMAIN wrapper
                    THEN BulkGetLoop(Tail(results), docs, SliceAppend(notFound, result.Id))
                    ELSE IF ~wrapper.ok.fits
                    THEN BulkGetReturn(NilSlice, NilSlice, PlainErr("decode"), TRUE)
                    ELSE BulkGetLoop(Tail(results),
                                     SliceAppend(docs, [ID |-> wrapper.ok.id]), notFound)
            ELSE BulkGetLoop(Tail(results), docs, notFound)

BulkGetSegs == <<DBName, <<"_", "b", "u", "l", "k", "_", "g", "e", "t">>>>

\* DB.BulkGet(ids, docType, opts), the options being iterated in order.
BulkGet(ids, opts, order, ex) ==
    LET pth == optpath(opts, getJsonKeys, order, BulkGetSegs)
    IN IF pth.err THEN BulkGetReturn(NilSlice, NilSlice, PlainErr("encoding"), FALSE)
       ELSE LET r == request("POST", pth.path, ex)
            IN IF r.err # NoErr THEN BulkGetReturn(NilSlice, NilSlice, r.err, TRUE)
               ELSE LET b == readBodyBulkGet(r.resp)
                    IN IF b.err # NoErr
                       THEN BulkGetReturn(NilSlice, NilSlice, b.err, TRUE)
                       ELSE BulkGetLoop(b.Results, NilSlice, NilSlice)

BulkGetExchanges ==
    {NetFail}
    \cup {Answer(Resp(st, <<>>, b)) : st \in {400, 500}, b \in ErrorBodies}
    \cup {Answer(Resp(200, <<>>, ResultsBody(l))) : l \in UpTo(ServerResults)}
    \cup {Answer(Resp(200, <<>>, b)) : b \in ErrorBodies \cup {NoBody}}

\* The options BulkGet is called with: none, one that encodes, one that
\* does not.
BulkGetOpts ==
    {NoOpts, [k \in {<<"k", "e", "y">>} |-> IntV(42)], [k \in {<<"k", "e", "y">>} |-> Nil]}

\* readBody into the caller's result: a reply with rows replaces what the
\* target held; a body that is no JSON is an error and stores nothing; an
\* object without rows stores nothing.
readBodyResult(resp, target) ==
    IF resp.body.kind = "results" THEN [err |-> NoErr, target |-> SliceOf(resp.body.results)]
    ELSE IF resp.body.kind \in {"junk", "none"}
    THEN [err |-> PlainErr("decode"), target |-> target]
    ELSE [err |-> NoErr, target |-> target]

\* What follows optpath in Get, View and AllDocs, and the marshalling of the
\* payload in PostView: the request, then readBody into the result.
FetchInto(method, pth, target, ex) ==
    LET r == request(method, pth, ex)
    IN IF r.err # NoErr THEN BulkReturn(target, r.err, TRUE, FALSE)
       ELSE LET b == readBodyResult(r.resp, target)
            IN BulkReturn(b.target, b.err, TRUE, FALSE)

\* Get, View and AllDocs with options; res is what the result holds afterwards.
QueryWith(op, opts, order, target, ex) ==
    LET pth == optpath(opts, JsonKeysFor(op), order, SegmentsFor(op))
    IN IF pth.err THEN BulkReturn(target, PlainErr("encoding"), FALSE, FALSE)
       ELSE FetchInto("GET", pth.path, target, ex)

\* DB.PostView(ddoc, view, result, opts, payload); encodable: json.Marshal
\* accepts the payload.
PostView(opts, order, encodable, target, ex) ==
    LET pth == optpath(opts, JsonKeysFor("PostView"), order, SegmentsFor("PostView"))
    IN IF pth.err THEN BulkReturn(target, PlainErr("encoding"), FALSE, FALSE)
       ELSE IF ~encodable THEN BulkReturn(target, PlainErr("payload"), FALSE, FALSE)
       ELSE FetchInto("POST", pth.path, target, ex)

\* The options the operations are called with: none; key, which is
\* JSON-designated for the views only; a key that is designated nowhere; a
\* value without a JSON form; a good option next to a bad one.
QueryOpts ==
    BulkGetOpts
    \cup {[k \in {<<"x">>} |-> Nil], [k \in {<<"k", "e", "y">>} |-> Chan],
          [k \in {<<"k", "e", "y">>, <<"x">>} |-> IF k = <<"x">> THEN Nil ELSE IntV(42)]}

\* What the caller's result holds before the call.
Targets == {NilSlice, SliceOf(<<"stale">>)}

QueryExchanges ==
    {NetFail}
    \cup {Answer(Resp(st, <<>>, b)) : st \in {404, 500}, b \in ErrorBodies}
    \cup {Answer(Resp(200, <<>>, ResultsBody(l))) : l \in {<<>>, <<"row">>}}
    \cup {Answer(Resp(200, <<>>, b)) : b \in ErrorBodies \cup {NoBody}}

NoBulk == BulkReturn(NilSlice, NoErr, FALSE, FALSE)

BulkInit ==
    /\ bop = ""
    /\ barg = <<>>
    /\ bex = NetFail
    /\ bret = NoBulk

\* A call of BulkDocs; encodable: json.Marshal accepts the documents.
CallBulkDocs(docs, encodable, ex) ==
    /\ BulkOnly
    /\ bop' = "BulkDocs"
    /\ barg' = [docs |-> docs, encodable |-> encodable]
    /\ bex' = ex
    /\ bret' = BulkDocs(docs, encodable, ex)

\* A call of BulkGet.
CallBulkGet(ids, opts, ex) ==
    /\ BulkOnly
    /\ bop' = "BulkGet"
    /\ barg' = [ids |-> ids, opts |-> opts]
    /\ bex' = ex
    /\ \E order \in Orders(DOMAIN opts) : bret' = BulkGet(ids, opts, order, ex)

\* A call of Get, View or AllDocs with options.
CallQuery(op, opts, target, ex) ==
    /\ BulkOnly
    /\ bop' = op
    /\ barg' = [opts |-> opts, target |-> target]
    /\ bex' = ex
    /\ \E order \in Orders(DOMAIN opts) : bret' = QueryWith(op, opts, order, target, ex)

\* A call of PostView.
CallPostView(opts, encodable, target, ex) ==
    /\ BulkOnly
    /\ bop' = "PostView"
    /\ barg' = [opts |-> opts, target |-> target, encodable |-> encodable]
    /\ bex' = ex
    /\ \E order \in Orders(DOMAIN opts) :
           bret' = PostView(opts, order, encodable, target, ex)

\* The caller goes on to its next call.
BulkForget ==
    /\ BulkOnly
    /\ bop # ""
    /\ bop' = ""
    /\ barg' = <<>>
    /\ bex' = NetFail
    /\ bret' = NoBulk

BulkNext ==
    \/ /\ bop = ""
       /\ \E docs \in UpTo(DocIDs), encodable \in BOOLEAN, ex \in BulkDocsExchanges :
              CallBulkDocs(docs, encodable, ex)
    \/ /\ bop = ""
       /\ \E ids \in UpTo(DocIDs), opts \in BulkGetOpts, ex \in BulkGetExchanges :
              CallBulkGet(ids, opts, ex)
    \/ /\ bop = ""
       /\ \E op \in {"Get", "View", "AllDocs"}, opts \in QueryOpts, target \in Targets,
             ex \in QueryExchanges : CallQuery(op, opts, target, ex)
    \/ /\ bop = ""
       /\ \E opts \in QueryOpts, encodable \in BOOLEAN, target \in Targets,
             ex \in QueryExchanges : CallPostView(opts, encodable, target, ex)
    \/ BulkForget

(***************************************************************************)
(* couchdb.go: single calls of the document operations                     *)
(***************************************************************************)
DocName == <<"t">>

\* The revisions a caller passes: none, a token, one that needs escaping.
GivenRevs == {<<>>, RevStr(1), <<"1", "-", "a", "&", "=", "b">>}

\* The Etag header values a response may carry: none, a quoted token, an
\* empty quoted token, a single character, a token without quotes, a weak
\* validator.
ETags ==
    {<<>>, Quoted(RevStr(2)), Quoted(<<>>), <<"x">>, <<"2", "-", "a">>,
     <<"W", "/">> \o Quoted(RevStr(2))}

OpStatuses == {200, 201, 304, 399, 400, 404, 409, 412}

OpBodies ==
    {Body("ok", RevStr(2), "", "", ""), Body("err", <<>>, "", "not_found", "missing"),
     Body("junk", <<>>, "", "", ""), NoBody}

OpExchanges ==
    {NetFail} \cup {Answer(Resp(st, e, b)) : st \in OpStatuses, e \in ETags, b \in OpBodies}

\* What a call gave: sent, the exchange took place; got, a response was
\* received; closed, its body has been closed; panic, the call did not return.
\* type Members; a nil slice is <<>>.
Members(names, roles) == [Names |-> names, Roles |-> roles]

\* A *Security: nil, or a pointer to an object.
NilSecurity == [nil |-> TRUE, Admins |-> Members(<<>>, <<>>), Members |-> Members(<<>>, <<>>)]
SecurityOf(admins, members) == [nil |-> FALSE, Admins |-> admins, Members |-> members]

\* new(Security)
DefaultSecurity == SecurityOf(Members(<<>>, <<>>), Members(<<>>, <<>>))

OpReturn(rev, err, panic, sent, got, closed, sec) ==
    [rev |-> rev, err |-> err, panic |-> panic, sent |-> sent, got |-> got,
     closed |-> closed, sec |-> sec]

NoOp == OpReturn(<<>>, NoErr, FALSE, FALSE, FALSE, FALSE, NilSecurity)

\* The result of an operation that ends in responseRev(closedRequest(...)).
RevReturn(v, r) == OpReturn(v.rev, v.err, v.panic, TRUE, r.got, r.closed, NilSecurity)

OpInit ==
    /\ oop = ""
    /\ oarg = <<>>
    /\ oreq = NoRequest
    /\ oex = NetFail
    /\ oret = NoOp

\* db.Put(ctx, id, doc, rev); encodable: json.Marshal accepts the document.
CallPut(id, rev, encodable, ex) ==
    /\ OpOnly
    /\ oop' = "Put"
    /\ oarg' = [id |-> id, rev |-> rev, encodable |-> encodable]
    /\ IF ~encodable
       THEN /\ oreq' = NoRequest
            /\ oex' = NetFail
            /\ oret' = OpReturn(<<>>, PlainErr("encoding"), FALSE, FALSE, FALSE, FALSE,
                                NilSecurity)
       ELSE /\ oreq' = BuildRequest("PUT", revpath(rev, <<DBName, id>>), TRUE)
            /\ oex' = ex
            /\ oret' = RevReturn(Put(id, rev, ex),
                                 closedRequest("PUT", revpath(rev, <<DBName, id>>), ex))

\* db.Delete(ctx, id, rev)
CallDelete(id, rev, ex) ==
    /\ OpOnly
    /\ oop' = "Delete"
    /\ oarg' = [id |-> id, rev |-> rev]
    /\ oreq' = BuildRequest("DELETE", revpath(rev, <<DBName, id>>), FALSE)
    /\ oex' = ex
    /\ oret' = RevReturn(Delete(id, rev, ex),
                         closedRequest("DELETE", revpath(rev, <<DBName, id>>), ex))

\* db.Rev(ctx, id)
CallRev(id, ex) ==
    /\ OpOnly
    /\ oop' = "Rev"
    /\ oarg' = [id |-> id, rev |-> <<>>]
    /\ oreq' = BuildRequest("HEAD", path(<<DBName, id>>), FALSE)
    /\ oex' = ex
    /\ oret' = RevReturn(Rev(id, ex), closedRequest("HEAD", path(<<DBName, id>>), ex))

\* A response with its ContentLength: the declared length of the body, or -1
\* when the response declares none (chunked or delimited by the end of the
\* connection).
WithLength(resp, n) ==
    [status |-> resp.status, etag |-> resp.etag, body |-> resp.body, length |-> n]
ContentLength(resp) == resp.length

\* json.Unmarshal of an object into a *Security.
DecodeMembers(obj) == Members(Field(obj, "names", <<>>), Field(obj, "roles", <<>>))
DecodeSecurity(obj) ==
    SecurityOf(DecodeMembers(Field(obj, "admins", <<>>)),
               DecodeMembers(Field(obj, "members", <<>>)))

\* A body holding a security object.
SecurityBody(obj) == [kind |-> "sec", obj |-> obj]

\* readBody into a *Security: members the type does not know are ignored.
readBodySecurity(resp) ==
    IF resp.body.kind \in {"junk", "none"}
    THEN [err |-> PlainErr("decode"), sec |-> DefaultSecurity]
    ELSE IF resp.body.kind = "sec"
    THEN [err |-> NoErr, sec |-> DecodeSecurity(resp.body.obj)]
    ELSE [err |-> NoErr, sec |-> DefaultSecurity]

SecurityPath == path(<<DBName, <<"_", "s", "e", "c", "u", "r", "i", "t", "y">>>>)

\* Mutant: the body is decoded whatever its length.
Security_AlwaysDecodes(ex) ==
    LET r == request("GET", SecurityPath, ex)
    IN IF r.err # NoErr
       THEN OpReturn(<<>>, r.err, FALSE, TRUE, r.got, r.closed, NilSecurity)
       ELSE LET b == readBodySecurity(r.resp)
            IN IF b.err # NoErr
               THEN OpReturn(<<>>, b.err, FALSE, TRUE, TRUE, TRUE, NilSecurity)
               ELSE OpReturn(<<>>, NoErr, FALSE, TRUE, TRUE, TRUE, b.sec)

\* ContextAwareDB.Security: the empty reply is returned before readBody,
\* which is what closes the body.
Security(ex) ==
    LET r == request("GET", SecurityPath, ex)
    IN IF r.err # NoErr
       THEN OpReturn(<<>>, r.err, FALSE, TRUE, r.got, r.closed, NilSecurity)
       ELSE IF ContentLength(r.resp) = 0
       THEN OpReturn(<<>>, NoErr, FALSE, TRUE, TRUE, FALSE, DefaultSecurity)
       ELSE LET b == readBodySecurity(r.resp)
            IN IF b.err # NoErr
               THEN OpReturn(<<>>, b.err, FALSE, TRUE, TRUE, TRUE, NilSecurity)
               ELSE OpReturn(<<>>, NoErr, FALSE, TRUE, TRUE, TRUE, b.sec)

\* ContextAwareDB.PutSecurity: the response of request is dropped, so nothing
\* closes its body.
PutSecurity(ex) ==
    LET r == request("PUT", SecurityPath, ex)
    IN OpReturn(<<>>, r.err, FALSE, TRUE, r.got, r.closed, NilSecurity)

\* The security objects a server may hold.
SecurityObjects ==
    {<<>>,
     [admins |-> [names |-> <<"u">>]],
     [members |-> [roles |-> <<"r">>], extra |-> 1],
     [admins |-> [names |-> <<"u">>, roles |-> <<"r">>], members |-> [names |-> <<"w">>]]}

\* The lengths a response may declare for a body.
Lengths(body) == IF body.kind = "none" THEN {0, -1} ELSE {1, -1}

\* What the server may answer with status st: a security object only below 400.
SecurityBodies(st) ==
    OpBodies \cup (IF st < 400 THEN {SecurityBody(o) : o \in SecurityObjects} ELSE {})
SecurityResponses(st) ==
    UNION {{WithLength(Resp(st, <<>>, b), n) : n \in Lengths(b)} : b \in SecurityBodies(st)}

SecurityExchanges ==
    {NetFail} \cup {Answer(r) : r \in UNION {SecurityResponses(st) : st \in OpStatuses}}

\* db.Security(ctx)
CallSecurity(ex) ==
    /\ OpOnly
    /\ oop' = "Security"
    /\ oarg' = <<>>
    /\ oreq' = BuildRequest("GET", SecurityPath, FALSE)
    /\ oex' = ex
    /\ oret' = Security(ex)

\* db.PutSecurity(ctx, secobj)
CallPutSecurity(ex) ==
    /\ OpOnly
    /\ oop' = "PutSecurity"
    /\ oarg' = <<>>
    /\ oreq' = BuildRequest("PUT", SecurityPath, TRUE)
    /\ oex' = ex
    /\ oret' = PutSecurity(ex)

\* The caller goes on to its next call.
OpForget ==
    /\ OpOnly
    /\ oop # ""
    /\ oop' = ""
    /\ oarg' = <<>>
    /\ oreq' = NoRequest
    /\ oex' = NetFail
    /\ oret' = NoOp

OpNext ==
    \/ /\ oop = ""
       /\ \E rev \in GivenRevs, encodable \in BOOLEAN, ex \in OpExchanges :
              CallPut(DocName, rev, encodable, ex)
    \/ /\ oop = ""
       /\ \E rev \in GivenRevs, ex \in OpExchanges : CallDelete(DocName, rev, ex)
    \/ /\ oop = ""
       /\ \E ex \in OpExchanges : CallRev(DocName, ex)
    \/ /\ oop = ""
       /\ \E ex \in SecurityExchanges : CallSecurity(ex)
    \/ /\ oop = ""
       /\ \E ex \in OpExchanges : CallPutSecurity(ex)
    \/ OpForget

(***************************************************************************)
(* client.go: the base address                                             *)
(***************************************************************************)
\* A url.URL as url.Parse gives it for an address: ForceQuery is set for an
\* address that ends in a '?' with nothing after it.
NoUser == <<>>
URL(user, pth, query, force, fragment) ==
    [Scheme |-> <<"h">>, User |-> user, Host |-> <<"n">>, Path |-> pth,
     RawQuery |-> query, ForceQuery |-> force, Fragment |-> fragment]

\* (*url.URL).String()
URLString(u) ==
    u.Scheme \o <<":", "/", "/">>
    \o (IF u.User # NoUser THEN u.User \o <<"@">> ELSE <<>>)
    \o u.Host \o u.Path
    \o (IF u.ForceQuery \/ u.RawQuery # <<>> THEN <<"?">> \o u.RawQuery ELSE <<>>)
    \o (IF u.Fragment # <<>> THEN <<"#">> \o u.Fragment ELSE <<>>)

\* NewContextAwareClient(addr, client, auth): the transport it makes.
NewContextAwareClient(addr, auth) ==
    LET prefixAddr == [addr EXCEPT !.User = NoUser, !.RawQuery = <<>>, !.Fragment = <<>>]
    IN newTransport(URLString(prefixAddr), auth)

\* ContextAwareClient.URL()
ClientURL(t) == t.prefix

\* transport.newRequest without the locking: the URL and the decoration.
newRequest(t, method, pth) == [method |-> method, url |-> t.prefix \o pth, authz |-> t.auth]

Paths == {<<>>, <<"/">>, <<"/", "a">>, <<"/", "a", "/">>, <<"/", "a", "/", "/">>}

\* The addresses a client is constructed with.
Addresses ==
    {URL(user, pth, query, FALSE, fragment) :
        user \in {NoUser, <<"u", ":", "p">>}, pth \in Paths,
        query \in {<<>>, <<"q", "=", "1">>}, fragment \in {<<>>, <<"f">>}}
    \cup {URL(NoUser, pth, <<>>, TRUE, <<>>) : pth \in Paths}

DefaultAddress == URL(NoUser, <<>>, <<>>, FALSE, <<>>)

NoLast == [op |-> "", value |-> <<>>, reqs |-> <<>>]

ClientInit ==
    /\ caddr = DefaultAddress
    /\ cauth = NoAuth
    /\ ctransports = <<NewContextAwareClient(DefaultAddress, NoAuth)>>
    /\ chandles = <<1>>
    /\ clast = NoLast

\* The program constructs a client, dropping the one it had.
NewClient(addr, auth) ==
    /\ ClientOnly
    /\ caddr' = addr
    /\ cauth' = auth
    /\ ctransports' = <<NewContextAwareClient(addr, auth)>>
    /\ chandles' = <<1>>
    /\ clast' = NoLast

\* c.SetAuth(a)
ClientSetAuth(a) ==
    /\ ClientOnly
    /\ ctransports' = [ctransports EXCEPT ![chandles[1]].auth = a]
    /\ cauth' = a
    /\ clast' = [op |-> "SetAuth", value |-> <<>>, reqs |-> <<>>]
    /\ UNCHANGED <<caddr, chandles>>

\* c.DB(name)
ClientDB ==
    /\ ClientOnly
    /\ Len(chandles) < Cardinality(Handles)
    /\ LET r == DB(1, chandles, ctransports)
       IN chandles' = r.handles /\ ctransports' = r.transports
    /\ clast' = [op |-> "DB", value |-> <<>>, reqs |-> <<>>]
    /\ UNCHANGED <<caddr, cauth>>

\* c.URL()
CallURL ==
    /\ ClientOnly
    /\ clast' = [op |-> "URL", value |-> ClientURL(ctransports[chandles[1]]), reqs |-> <<>>]
    /\ UNCHANGED <<caddr, cauth, ctransports, chandles>>

\* A request through handle h: c.Ping() on the client, db.Rev(id) on a DB.
ClientRequest(h) ==
    /\ ClientOnly
    /\ LET t == ctransports[chandles[h]]
       IN clast' = [op |-> "request", value |-> <<>>,
                    reqs |-> <<IF h = 1 THEN newRequest(t, "HEAD", <<"/">>)
                               ELSE newRequest(t, "HEAD", path(<<DBName, DocName>>))>>]
    /\ UNCHANGED <<caddr, cauth, ctransports, chandles>>

\* db.SyncDesign(d): the fetch and the store, both through the DB's transport.
ClientSyncDesign(h) ==
    /\ ClientOnly
    /\ h > 1
    /\ LET t == ctransports[chandles[h]]
       IN clast' = [op |-> "SyncDesign", value |-> <<>>,
                    reqs |-> <<newRequest(t, "GET", path(<<DBName, DesignID>>)),
                               newRequest(t, "PUT", revpath(RevStr(1), <<DBName, DesignID>>))>>]
    /\ UNCHANGED <<caddr, cauth, ctransports, chandles>>

ClientNext ==
    \/ \E addr \in Addresses, auth \in {NoAuth, "a"} : NewClient(addr, auth)
    \/ \E a \in AuthValues : ClientSetAuth(a)
    \/ ClientDB
    \/ CallURL
    \/ \E h \in 1..Len(chandles) : ClientRequest(h)
    \/ \E h \in 1..Len(chandles) : ClientSyncDesign(h)

(***************************************************************************)
(* Specifications                                                          *)
(***************************************************************************)
Init == SyncInit /\ HttpInit /\ AuthInit /\ EncInit /\ BulkInit /\ OpInit /\ ClientInit

\* Concurrent SyncDesign calls against one server.
Next == SyncNext

\* The client was built without a strategy; the callers' designs differ.
SyncStart == Init /\ transports[1].auth = NoAuth

Spec == SyncStart /\ [][Next]_vars

\* Single calls of transport.request and of the predicates.
HttpStep == HttpNext

\* One state of the parts the other specifications leave alone.
Rest == Init /\ (\A c \in Callers : d[c].Views = "v1") /\ transports[1].auth = NoAuth

HttpSpec == Rest /\ [][HttpStep]_vars

\* Goroutines calling SetAuth and sending requests through the handles.
AuthStep == AuthNext

\* The client was built with a strategy or without one.
AuthStart == Init /\ (\A c \in Callers : d[c].Views = "v1")

AuthSpec == AuthStart /\ [][AuthStep]_vars

\* The scheduler runs every goroutine that can take a step, and AddAuth
\* returns; t.http.Do may block for ever, and nobody has to call.
AuthFairness ==
    \A p \in Procs :
        /\ WF_vars(RLock(p)) /\ WF_vars(CheckAuth(p))
        /\ WF_vars(AddAuth(p)) /\ WF_vars(RUnlock(p))
        /\ WF_vars(LockAnnounce(p)) /\ WF_vars(LockAcquire(p))
        /\ WF_vars(WriteAuth(p)) /\ WF_vars(Unlock(p))

AuthLiveSpec == AuthStart /\ [][AuthStep]_vars /\ AuthFairness

\* Single calls of optpath.
EncStep == EncNext

EncSpec == Rest /\ [][EncStep]_vars

\* Single calls of the bulk operations.
BulkStep == BulkNext

BulkSpec == Rest /\ [][BulkStep]_vars

\* Single calls of Put, Delete, Rev and Security.
OpStep == OpNext

OpSpec == Rest /\ [][OpStep]_vars

\* A client, its DB handles and the calls made through them.
ClientStep == ClientNext

ClientSpec == Rest /\ [][ClientStep]_vars

(***************************************************************************)
(* SyncDesign: the claims                                                  *)
(***************************************************************************)
\* The completed calls, as <<caller, index>>.
Done == {ci \in Callers \X (1..MaxCalls) : ci[2] <= Len(hist[ci[1]])}
Rec(ci) == hist[ci[1]][ci[2]]

\* The GET succeeded and found a document with a revision.
Found(r) == r.getErr = NoErr /\ r.remote.Rev # <<>>
\* The GET was answered 404.
Missing(r) == r.getErr.kind = "server" /\ r.getErr.status = 404
SameSum(r) == ViewChecksum(r.remote.Views) = ViewChecksum(r.views)

\* The URL of the design document: the prefix, /db, and the escaped ID.
DesignURL == <<"h", "/", "d", "b", "/", "_", "d", "%", "2", "F", "t">>

\* C1: whenever the GET succeeds with a non-empty remote revision and the
\* remote view checksum equals the local one, the call issues no PUT, the
\* local design's Rev is the remote revision, and the call returns success.
C1_NoOp ==
    \A ci \in Done :
        LET r == Rec(ci)
        IN (Found(r) /\ SameSum(r)) =>
               /\ r.puts = 0
               /\ r.rev = r.remote.Rev
               /\ r.err = NoErr

\* A no-op call that replaced a different local revision by the remote one.
C1_Witness ==
    \E ci \in Done :
        LET r == Rec(ci)
        IN Found(r) /\ SameSum(r) /\ r.rev0 # r.remote.Rev /\ r.rev = r.remote.Rev

\* Two consecutive calls of one caller with the same definition, the first
\* finding no document, and nobody else having written.
TwoSyncs(c, i) ==
    /\ i + 1 <= Len(hist[c])
    /\ Missing(hist[c][i])
    /\ hist[c][i].views = hist[c][i + 1].views
    /\ writers \subseteq {c}

\* C2: from a server without the design document and with no other writer,
\* two consecutive calls with the same definition both succeed when no
\* exchange fails, and when both succeed they made exactly one PUT, the
\* second call made none, and the local Rev after the second call is the
\* revision the first call's PUT returned.
C2_Idempotent ==
    \A c \in Callers : \A i \in 1..MaxCalls :
        TwoSyncs(c, i) =>
            LET a == hist[c][i]
                b == hist[c][i + 1]
            IN /\ (~a.faulted /\ ~b.faulted) => (a.err = NoErr /\ b.err = NoErr)
               /\ (a.err = NoErr /\ b.err = NoErr) =>
                      /\ a.puts + b.puts = 1
                      /\ b.puts = 0
                      /\ a.putRev # <<>>
                      /\ b.rev = a.putRev
                      /\ d[c].Rev = a.putRev \/ Len(hist[c]) > i + 1 \/ pc[c] # "idle"

\* Both calls happened and succeeded.
C2_Witness ==
    \E c \in Callers : \E i \in 1..MaxCalls :
        /\ TwoSyncs(c, i)
        /\ hist[c][i].err = NoErr /\ hist[c][i + 1].err = NoErr
        /\ hist[c][i].puts = 1 /\ hist[c][i + 1].puts = 0

\* C3: when the remote document exists with revision R and its checksum
\* differs, the call issues exactly one PUT, to the design's URL with rev=R;
\* when the GET answered not-found the PUT's URL has no query; and a
\* successful call leaves the local Rev at the revision that PUT returned.
C3_ChangeDetected ==
    \A ci \in Done :
        LET r == Rec(ci)
        IN /\ (Found(r) /\ ~SameSum(r)) =>
                  /\ r.puts = 1
                  /\ r.putUrl = DesignURL \o <<"?", "r", "e", "v", "=">> \o r.remote.Rev
           /\ Missing(r) =>
                  /\ r.puts = 1
                  /\ r.putUrl = DesignURL
           /\ (r.puts = 1 /\ r.err = NoErr) =>
                  /\ r.putRev # <<>>
                  /\ r.rev = r.putRev

\* An update of an existing document that succeeded.
C3_Witness ==
    \E ci \in Done :
        LET r == Rec(ci)
        IN Found(r) /\ ~SameSum(r) /\ r.puts = 1 /\ r.err = NoErr /\ r.rev # r.remote.Rev

\* C4: if the GET fails with anything but a 404 server error, the call
\* returns that error, issues no PUT and leaves the local Rev as it was.
C4_FetchFailure ==
    \A ci \in Done :
        LET r == Rec(ci)
        IN (r.getErr # NoErr /\ ~Missing(r)) =>
               /\ r.err = r.getErr
               /\ r.puts = 0
               /\ r.rev = r.rev0

\* A status >= 400 other than 404 and an undecodable body, each met with a
\* non-empty local revision.
C4_Witness ==
    \A k \in {"server", "decode"} :
        \E ci \in Done :
            LET r == Rec(ci)
            IN r.getErr.kind = k /\ ~Missing(r) /\ r.rev0 # <<>> /\ r.rev = r.rev0

\* C5: if the PUT fails, the call returns that error after the one PUT, and
\* the local Rev is empty afterwards whatever it was before the call.
C5_WriteFailure ==
    \A ci \in Done :
        LET r == Rec(ci)
        IN r.putErr # NoErr =>
               /\ r.err = r.putErr
               /\ r.puts = 1
               /\ r.rev = <<>>

\* A conflict, met with a non-empty local revision.
C5_Witness ==
    \E ci \in Done :
        LET r == Rec(ci)
        IN r.putErr.kind = "server" /\ r.putErr.status = 409 /\ r.rev0 # <<>> /\ r.rev = <<>>

(***************************************************************************)
(* The transport and the error model: the claims                           *)
(***************************************************************************)
\* A call of transport.request whose exchange completed with a response.
Answered == hreq # NoRequest /\ ~hex.neterr

\* C6: for every exchange that completes with a response, request returns a
\* *Error and no response if and only if the status is >= 400, and for every
\* status < 400 it returns the response and a nil error.
C6_Classified ==
    Answered =>
        /\ (hret.err.kind = "server" /\ hret.resp = NoResp) <=> hex.resp.status >= 400
        /\ hex.resp.status < 400 => (hret.resp = hex.resp /\ hret.err = NoErr)
        /\ hex.resp.status >= 400 => hret.err.status = hex.resp.status

\* Both sides of the boundary have been seen: 399 is a response, 400 an error.
C6_Witness ==
    /\ Answered
    /\ hex.resp.status = 400
    /\ hret.err.kind = "server"
    /\ hreq.method = "HEAD"

\* C7: for every error value, NotFound / Unauthorized / Conflict are true
\* exactly for a *Error with status 404 / 401 / 409, ErrorStatus(err, n)
\* exactly for a *Error with status n, and none of them panics.
C7_Predicates ==
    LET is(n) == IF probe.err.kind = "server" /\ probe.err.status = n
                 THEN "true" ELSE "false"
    IN probe # NoProbe =>
           /\ probe.ErrorStatus = is(probe.code)
           /\ probe.NotFound = is(404)
           /\ probe.Unauthorized = is(401)
           /\ probe.Conflict = is(409)

\* C7 without the one value that breaks it: for every error value other than
\* an error interface holding a nil *Error, the predicates behave as stated.
C7_ExceptNilPointer ==
    (probe # NoProbe /\ probe.err # NilPtrErr) => C7_Predicates

(***************************************************************************)
(* The authentication strategy: the claims                                 *)
(***************************************************************************)
\* The strategy a request was decorated by, NoAuth when AddAuth was not
\* invoked on it.
Decoration(j) == IF j.deco = <<>> THEN NoAuth ELSE j.deco[1]

\* The requests newRequest has handed back.
Built == {p \in Procs : apc[p] = "exchange"}

\* C8: every request started after a SetAuth call has returned, through the
\* client or through a DB handle derived from it before or after the call, is
\* decorated by the strategy that call set, or by the one a SetAuth call that
\* did not precede it set; after SetAuth(nil), AddAuth is not invoked.
C8_SetAuthVisible ==
    /\ \A p \in Procs : apc[p] # "panic"
    /\ \A p \in Built : Decoration(job[p]) \in job[p].allowed

\* SetAuth("b") has returned, no other call is under way, and of the two
\* requests started since, the one through the client and the one through
\* the DB handle both carry "b".
C8_Witness ==
    \E p \in Built, q \in Built :
        /\ job[p].h = 1 /\ job[p].allowed = {"b"} /\ job[p].deco = <<"b">>
        /\ job[q].h = 2 /\ job[q].allowed = {"b"} /\ job[q].deco = <<"b">>

\* C9: no request reads the strategy while setAuth holds the lock for
\* writing; and each request is decorated at most once, by the value it
\* tested against nil, a value that was the current one at some instant of
\* its newRequest call.
C9_AtomicSwap ==
    /\ \A p \in Procs, q \in Procs :
           ~(apc[p] \in {"write", "unlock"} /\ apc[q] \in {"check", "add", "runlock"})
    /\ \A p \in Procs : apc[p] # "panic"
    /\ \A p \in Procs :
           apc[p] \in {"runlock", "exchange"} =>
               /\ Len(job[p].deco) <= 1
               /\ Decoration(job[p]) = job[p].checked
               /\ Decoration(job[p]) \in job[p].during

\* A request that saw the strategy change before it got the lock is about to
\* be decorated, while a SetAuth call waits for it to leave.
C9_Witness ==
    \E p \in Procs, q \in Procs :
        /\ apc[p] = "add" /\ Cardinality(job[p].during) = 2
        /\ apc[q] = "drain" /\ job[q].a # job[p].checked

(***************************************************************************)
(* The option encoder: the claims                                          *)
(***************************************************************************)
ScalarKinds == {"string", "bool", "int", "uint", "float"}

\* The keys whose value is nil or of a kind that is no scalar.
Unencodable == {k \in DOMAIN eopts : eopts[k].kind \notin ScalarKinds}

Failed == eret.err /\ eret.path = <<>>

\* C10 as stated: whenever any key, JSON-designated or not, has a nil value
\* or a value that is no string, bool, integer or float, the encoding fails
\* and yields no query string.
C10_AnyKeyFails ==
    (eret.called /\ Unencodable # {}) => Failed

\* C10, amended: the encoding fails and yields no query string whenever a key
\* that is not JSON-designated has a nil value or a value that is no string,
\* bool, integer or float; a JSON-designated key makes it fail exactly when
\* its value has no JSON form, so nil (null) and lists are accepted there.
C10_ScalarKeyFails ==
    eret.called =>
        /\ (\E k \in Unencodable : ~isjson(k, ejs)) => Failed
        /\ eret.err <=>
               \E k \in DOMAIN eopts :
                   IF isjson(k, ejs) THEN Marshal(eopts[k]).err
                   ELSE eopts[k].kind \notin ScalarKinds
        /\ eret.err => (eret.path = <<>> /\ eret.key \in DOMAIN eopts)

\* A JSON key with a list came first in the iteration and was written, then
\* the nil value of an ordinary key made the call fail with nothing returned.
C10_Witness ==
    /\ eret.called /\ Failed
    /\ Len(eorder) = 2
    /\ isjson(eorder[1], ejs) /\ eopts[eorder[1]].kind = "slice"
    /\ ~isjson(eorder[2], ejs) /\ eopts[eorder[2]] = Nil
    /\ eret.key = eorder[2]

\* What a server does with a query string (net/url.ParseQuery): the text is
\* cut at every '&', each piece at its first '=', and both halves are
\* unescaped: '+' is a space and %XX the character with that code.
Unhex(h1, h2) ==
    CASE <<h1, h2>> = <<"2", "2">> -> "\""
      [] <<h1, h2>> = <<"2", "5">> -> "%"
      [] <<h1, h2>> = <<"2", "6">> -> "&"
      [] <<h1, h2>> = <<"2", "B">> -> "+"
      [] <<h1, h2>> = <<"2", "C">> -> ","
      [] <<h1, h2>> = <<"2", "F">> -> "/"
      [] <<h1, h2>> = <<"3", "D">> -> "="
      [] <<h1, h2>> = <<"3", "F">> -> "?"
      [] <<h1, h2>> = <<"5", "B">> -> "["
      [] <<h1, h2>> = <<"5", "C">> -> "\\"
      [] <<h1, h2>> = <<"5", "D">> -> "]"
      [] OTHER -> "bad"

RECURSIVE QueryUnescape(_)
QueryUnescape(str) ==
    IF str = <<>> THEN <<>>
    ELSE IF Head(str) = "+" THEN <<" ">> \o QueryUnescape(Tail(str))
    ELSE IF Head(str) = "%"
    THEN IF Len(str) < 3 THEN <<"bad">>
         ELSE <<Unhex(str[2], str[3])>> \o QueryUnescape(SubSeq(str, 4, Len(str)))
    ELSE <<Head(str)>> \o QueryUnescape(Tail(str))

\* The index of the first ch in str, 0 when there is none.
IndexOf(str, ch) ==
    IF \E i \in 1..Len(str) : str[i] = ch
    THEN CHOOSE i \in 1..Len(str) : str[i] = ch /\ \A j \in 1..(i - 1) : str[j] # ch
    ELSE 0

RECURSIVE SplitOn(_, _)
SplitOn(str, ch) ==
    LET i == IndexOf(str, ch)
    IN IF i = 0 THEN <<str>>
       ELSE <<SubSeq(str, 1, i - 1)>> \o SplitOn(SubSeq(str, i + 1, Len(str)), ch)

ParsePair(piece) ==
    LET i == IndexOf(piece, "=")
    IN IF i = 0 THEN [key |-> QueryUnescape(piece), value |-> <<>>]
       ELSE [key |-> QueryUnescape(SubSeq(piece, 1, i - 1)),
             value |-> QueryUnescape(SubSeq(piece, i + 1, Len(piece)))]

ParseQuery(q) ==
    LET pieces == SelectSeq(SplitOn(q, "&"), LAMBDA x : x # <<>>)
    IN [i \in 1..Len(pieces) |-> ParsePair(pieces[i])]

\* The query of the path the last call returned: what follows the '?'.
RawQuery ==
    LET i == IndexOf(eret.path, "?")
    IN IF i = 0 THEN <<>> ELSE SubSeq(eret.path, i + 1, Len(eret.path))

Decoded == ParseQuery(RawQuery)

\* The canonical text of a scalar value.
Canonical(v) ==
    CASE v.kind = "string" -> v.s
      [] v.kind = "bool"   -> FormatBool(v.b)
      [] v.kind = "int"    -> FormatInt(v.n)
      [] v.kind = "uint"   -> FormatUint(v.n)

\* The mappings C11 is about: no nil, only strings, booleans and integers.
Plain ==
    /\ eret.called
    /\ \A k \in DOMAIN eopts : eopts[k].kind \in {"string", "bool", "int", "uint"}

\* One pair per key, in the order of the iteration, with the key recovered.
KeysRecovered ==
    /\ ~eret.err
    /\ Len(Decoded) = Cardinality(DOMAIN eopts)
    /\ \A i \in 1..Len(Decoded) : Decoded[i].key = eorder[i]

\* C11 as stated: for every mapping of strings, booleans and integers the
\* encoding succeeds, and decoding the query gives one pair per key with the
\* key and the canonical text of the value unchanged, whatever the keys are.
C11_RoundTrip ==
    Plain =>
        /\ KeysRecovered
        /\ \A i \in 1..Len(Decoded) : Decoded[i].value = Canonical(eopts[eorder[i]])

\* C11, amended: as above for the keys that are not JSON-designated; under a
\* JSON-designated key what is recovered is the JSON literal of the value,
\* which for a string is the string in double quotes.
C11_RoundTripScalarKeys ==
    Plain =>
        /\ KeysRecovered
        /\ \A i \in 1..Len(Decoded) :
               LET k == eorder[i]
               IN Decoded[i].value =
                      IF isjson(k, ejs) THEN Marshal(eopts[k]).text
                      ELSE Canonical(eopts[k])

\* A key and a string that both hold '&', '=', '%', '+' and a space came
\* back unchanged, next to an integer.
C11_Witness ==
    /\ Plain /\ Len(eorder) = 2
    /\ eorder[1] = <<"a", "&", "=", "%", "+", " ">>
    /\ eopts[eorder[1]] = StrV(<<"a", "&", " ", "\"", "=", "%", "+">>)
    /\ Decoded[1].value = <<"a", "&", " ", "\"", "=", "%", "+">>
    /\ eopts[eorder[2]] = IntV(-1)
    /\ Decoded[2] = [key |-> eorder[2], value |-> <<"-", "1">>]

\* The designated keys, as the documentation of the server gives them.
OpenRevs == <<"o", "p", "e", "n", "_", "r", "e", "v", "s">>
AttsSince == <<"a", "t", "t", "s", "_", "s", "i", "n", "c", "e">>
KeyWord == <<"k", "e", "y">>
Designated(op) ==
    IF op \in {"Get", "BulkGet"} THEN {OpenRevs, AttsSince}
    ELSE {<<"s", "t", "a", "r", "t">> \o KeyWord, <<"s", "t", "a", "r", "t", "_">> \o KeyWord,
          KeyWord, <<"e", "n", "d">> \o KeyWord, <<"e", "n", "d", "_">> \o KeyWord,
          KeyWord \o <<"s">>}

\* The i-th key=value piece of the query as it was written, still escaped.
RawValue(i) ==
    LET piece == SplitOn(RawQuery, "&")[i]
    IN SubSeq(piece, IndexOf(piece, "=") + 1, Len(piece))

\* The two encodings of a value.
AsJson(v) == QueryEscape(Marshal(v).text)
AsScalar(v) ==
    CASE v.kind = "string" -> QueryEscape(v.s)
      [] v.kind = "bool"   -> FormatBool(v.b)
      [] v.kind \in {"int", "uint"} -> FormatInt(v.n)
      [] v.kind = "float"  -> FormatFloat(v)
      [] OTHER -> <<"none">>

\* C12: in the query an operation builds, a value is written as the
\* percent-encoded JSON literal exactly when its key is in the designated set
\* of that operation, and in its scalar form under every other key.
C12_JsonKeys ==
    (eret.called /\ ~eret.err) =>
        \A i \in 1..Len(eorder) :
            LET k == eorder[i]
            IN RawValue(i) = IF k \in Designated(eop) THEN AsJson(eopts[k])
                             ELSE AsScalar(eopts[k])

\* In one View query the same string is JSON-quoted under key and unquoted
\* under open_revs, which is designated for document fetches only.
C12_Witness ==
    /\ eret.called /\ ~eret.err /\ eop = "View" /\ eorder = <<KeyWord, OpenRevs>>
    /\ eopts[KeyWord] = eopts[OpenRevs] /\ eopts[KeyWord].kind = "string"
    /\ eopts[KeyWord].s # <<>>
    /\ SubSeq(RawValue(1), 1, 4) = <<"%", "2", "2", "a">>
    /\ SubSeq(RawValue(2), 1, 4) = <<"a", "%", "2", "6">>

(***************************************************************************)
(* The bulk operations: the claims                                         *)
(***************************************************************************)
\* The exchange of the last bulk call failed as a whole.
ExchangeFailed == bret.sent /\ (bex.neterr \/ bex.resp.status >= 400)

\* The error such an exchange stands for.
ExchangeError ==
    IF bex.neterr THEN PlainErr("transport")
    ELSE parseError("POST", Prefix \o BulkDocsPath, bex.resp)

\* C13: when the exchange fails as a whole, BulkDocs returns a nil result
\* and that error without panicking; and it returns an error in no other case
\* than a failed exchange or an undecodable body.
C13_WholeFailure ==
    bop = "BulkDocs" =>
        /\ ~bret.panic
        /\ ExchangeFailed => (bret.res = NilSlice /\ bret.err = ExchangeError)
        /\ bret.err # NoErr => (ExchangeFailed \/ (bret.sent /\ bex.resp.body.kind # "list"))

\* The exchange of the last BulkDocs call gave a JSON array with status < 400.
BulkDocsAnswered ==
    bop = "BulkDocs" /\ bret.sent /\ ~ExchangeFailed /\ bex.resp.body.kind = "list"

\* C14: when the exchange succeeds BulkDocs returns no error and one entry
\* per entry of the reply, in the reply's order, with the reply's id and
\* either ok = true and the rev or ok = false and error and reason; the
\* documents of the request play no part.
C14_PerItem ==
    BulkDocsAnswered =>
        LET sent == bex.resp.body.items
            got == bret.res.items
        IN /\ ~bret.panic /\ bret.err = NoErr /\ ~bret.res.nil
           /\ Len(got) = Len(sent)
           /\ \A i \in 1..Len(sent) :
                  /\ got[i].ID = sent[i].id
                  /\ "ok" \in DOMAIN sent[i] =>
                         (got[i].OK /\ got[i].Rev = sent[i].rev /\ got[i].Error = "")
                  /\ "ok" \notin DOMAIN sent[i] =>
                         (~got[i].OK /\ got[i].Error = sent[i].error
                          /\ got[i].Reason = sent[i].reason)

\* Documents a, b were sent; the reply lists b as a conflict and then a as
\* stored, and that is what was returned.
C14_Witness ==
    /\ BulkDocsAnswered /\ barg.docs = <<"a", "b">>
    /\ bex.resp.body.items = <<ItemFail("b", "conflict", "clash"), ItemOk("a", "1-x")>>
    /\ bret.err = NoErr
    /\ bret.res.items = <<BulkDocsResp(FALSE, "b", "", "conflict", "clash"),
                          BulkDocsResp(TRUE, "a", "1-x", "", "")>>

\* The exchange of the last BulkGet call gave a results array with status < 400.
BulkGetAnswered ==
    bop = "BulkGet" /\ bret.sent /\ ~ExchangeFailed /\ bex.resp.body.kind = "results"

Results == bex.resp.body.results

\* The first entry of result r is a document / a document that does not
\* decode into the caller's type.
FirstOk(r) == Len(r.Docs) > 0 /\ DOMAIN r.Docs[1] = {"ok"}
Misfit(r) == FirstOk(r) /\ ~r.Docs[1].ok.fits

\* The ids of a sequence of results.
IdsOf(rs) == [i \in 1..Len(rs) |-> rs[i].Id]

\* The partition of the results, given which of them count as not fetched.
Partitioned(unfetched(_)) ==
    /\ bret.err = NoErr
    /\ IdsOf(SelectSeq(Results, FirstOk)) = [i \in 1..Len(bret.res.items) |-> bret.res.items[i].ID]
    /\ IdsOf(SelectSeq(Results, unfetched)) = bret.notFound.items

\* C15: when the exchange succeeds every result of the reply is accounted
\* for once, as a document when its first entry is ok and as its id in
\* notFound otherwise; none is dropped, and only a document that does not
\* decode makes the call fail.
C15_Partition ==
    BulkGetAnswered =>
        /\ ~bret.panic
        /\ (\A i \in 1..Len(Results) : ~Misfit(Results[i])) =>
               Partitioned(LAMBDA r : ~FirstOk(r))
        /\ bret.err # NoErr => \E i \in 1..Len(Results) : Misfit(Results[i])

\* C15 for the replies CouchDB gives, where every result has an entry.
C15_ExceptEmptyResults ==
    (BulkGetAnswered /\ \A i \in 1..Len(Results) : Len(Results[i].Docs) > 0) => C15_Partition

(***************************************************************************)
(* The document operations: the claims                                     *)
(***************************************************************************)
\* The query of a URL, as a server decodes it.
QueryOf(url) ==
    LET i == IndexOf(url, "?")
    IN IF i = 0 THEN <<>> ELSE ParseQuery(SubSeq(url, i + 1, Len(url)))

\* A header value without the double quotes around it, if it has them.
Unquote(e) ==
    LET a == IF e # <<>> /\ Head(e) = "\"" THEN Tail(e) ELSE e
    IN IF a # <<>> /\ a[Len(a)] = "\"" THEN SubSeq(a, 1, Len(a) - 1) ELSE a

\* A call of Put, Delete or Rev that sent its request.
RevCall == oop \in {"Put", "Delete", "Rev"} /\ oret.sent

Succeeded == RevCall /\ ~oex.neterr /\ oex.resp.status < 400

\* The rev parameter is there exactly when a revision was given, and equals it.
RevParameter ==
    RevCall =>
        QueryOf(oreq.url) = IF oarg.rev = <<>> THEN <<>>
                            ELSE <<[key |-> <<"r", "e", "v">>, value |-> oarg.rev]>>

\* Without an Etag header: an empty revision and a protocol error.
MissingETag ==
    (Succeeded /\ oex.resp.etag = <<>>) =>
        (~oret.panic /\ oret.rev = <<>> /\ oret.err = PlainErr("protocol"))

\* C16: Put, Delete and Rev send rev=<revision> exactly when a revision is
\* given; with status < 400 and an Etag header they return the header value
\* without its surrounding quotes and no error; with status < 400 and no Etag
\* header they return an empty revision and a protocol error.
C16_RevisionPlumbing ==
    /\ RevParameter
    /\ MissingETag
    /\ (Succeeded /\ oex.resp.etag # <<>>) =>
           (~oret.panic /\ oret.err = NoErr /\ oret.rev = Unquote(oex.resp.etag))

\* An Etag header as CouchDB writes it: a token in double quotes.
QuotedETag ==
    LET e == oex.resp.etag IN Len(e) >= 2 /\ Head(e) = "\"" /\ e[Len(e)] = "\""

\* C16 for the Etag values of the form "token".
C16_QuotedETag ==
    /\ RevParameter
    /\ MissingETag
    /\ (Succeeded /\ QuotedETag) =>
           (~oret.panic /\ oret.err = NoErr /\ oret.rev = Unquote(oex.resp.etag))

\* Put with a revision that needs escaping got "2" back from the header "2".
C16_QuotedWitness ==
    /\ oop = "Put" /\ Succeeded /\ oarg.rev = <<"1", "-", "a", "&", "=", "b">>
    /\ oex.resp.etag = Quoted(RevStr(2)) /\ oret.rev = RevStr(2) /\ oret.err = NoErr

\* The exchange of the last call gave a response with status >= 400.
Refused == oret.sent /\ ~oex.neterr /\ oex.resp.status >= 400

\* The bodies that are a JSON object, and what the decoder says of the others.
IsObject(body) == body.kind \notin {"junk", "none"}
DecodeFailure(body) == IF body.kind = "none" THEN "EOF" ELSE "invalid character"

\* C17: the error made of a response with status >= 400 is a Server Error
\* with the method and URL of the request and the status of the response;
\* ErrorCode and Reason are empty for HEAD, the error and reason members of
\* the body for the other methods, and both the same "unknown, couldn't
\* decode" text with the decoder's error when the body is no JSON object.
\* Rev on a 404 returns no revision and an error that is NotFound, not
\* Unauthorized and not Conflict.
C17_ServerError ==
    Refused =>
        LET e == oret.err
            body == oex.resp.body
        IN /\ ~oret.panic
           /\ e.kind = "server"
           /\ e.method = oreq.method /\ e.url = oreq.url /\ e.status = oex.resp.status
           /\ oreq.method = "HEAD" => (e.code = "" /\ e.reason = "")
           /\ (oreq.method # "HEAD" /\ IsObject(body)) =>
                  (e.code = body.code /\ e.reason = body.reason)
           /\ (oreq.method # "HEAD" /\ ~IsObject(body)) =>
                  /\ e.code = e.reason
                  /\ e.code = "unknown, couldn't decode CouchDB error: " \o DecodeFailure(body)
           /\ (oop = "Rev" /\ oex.resp.status = 404) =>
                  /\ oret.rev = <<>>
                  /\ Outcome(NotFound(e)) = "true"
                  /\ Outcome(Unauthorized(e)) = "false"
                  /\ Outcome(Conflict(e)) = "false"

\* Rev got 404 with a body that is no JSON: NotFound, and nothing of the
\* body in the error.
C17_Witness ==
    /\ oop = "Rev" /\ Refused /\ oex.resp.status = 404 /\ oex.resp.body.kind = "junk"
    /\ oret.rev = <<>> /\ oret.err.code = "" /\ Outcome(NotFound(oret.err)) = "true"
    /\ oret.err.url = Prefix \o <<"/", "d", "b", "/", "t">>

\* Security got a response with status < 400.
Fetched == oop = "Security" /\ oret.sent /\ ~oex.neterr /\ oex.resp.status < 400

\* What a well-formed body stands for.
Stated(body) == IF body.kind = "sec" THEN DecodeSecurity(body.obj) ELSE DefaultSecurity

NonEmptyReply ==
    (Fetched /\ oex.resp.body.kind # "none") =>
        IF oex.resp.body.kind = "junk"
        THEN oret.sec = NilSecurity /\ oret.err = PlainErr("decode")
        ELSE oret.sec = Stated(oex.resp.body) /\ oret.err = NoErr

\* C18: with status < 400 and a body of no bytes Security returns the default
\* security object and no error; with a body it returns the object decoded
\* from it, or nil and the decoding error when the body is malformed.
C18_EmptyReply ==
    /\ (Fetched /\ oex.resp.body.kind = "none") =>
           (oret.sec = DefaultSecurity /\ oret.err = NoErr)
    /\ NonEmptyReply

\* C18 for an empty reply that declares its length (Content-Length: 0).
C18_DeclaredEmpty ==
    /\ (Fetched /\ oex.resp.body.kind = "none" /\ ContentLength(oex.resp) = 0) =>
           (oret.sec = DefaultSecurity /\ oret.err = NoErr)
    /\ NonEmptyReply

C18_DeclaredWitness ==
    /\ Fetched /\ oex.resp.body.kind = "none" /\ ContentLength(oex.resp) = 0
    /\ oret.sec = DefaultSecurity /\ oret.err = NoErr

(***************************************************************************)
(* The base address: the claims                                            *)
(***************************************************************************)
\* A path without the slashes at its end.
Unslashed(pth) ==
    LET Ends == {i \in 0..Len(pth) : i = 0 \/ pth[i] # "/"}
        n == CHOOSE i \in Ends : \A j \in Ends : j <= i
    IN SubSeq(pth, 1, n)

\* The address without credentials, query, fragment and trailing slash.
BaseOf(addr) == addr.Scheme \o <<":", "/", "/">> \o addr.Host \o Unslashed(addr.Path)

StartsWith(str, pre) == Len(str) >= Len(pre) /\ SubSeq(str, 1, Len(pre)) = pre

\* Every request of the last call went to the base address and carried the
\* strategy last given to the client, never the credentials of the address.
RequestsClean ==
    \A i \in 1..Len(clast.reqs) :
        LET r == clast.reqs[i]
        IN /\ StartsWith(r.url, BaseOf(caddr) \o <<"/">>)
           /\ \A j \in 1..Len(r.url) : r.url[j] # "@"
           /\ r.authz = cauth

\* C19: in every state the prefix of every transport is the address the
\* client was constructed with, without credentials, query, fragment and
\* trailing slash; URL() returns it; requests go to it and carry only the
\* strategy given at construction or by SetAuth.
C19_BaseAddress ==
    /\ \A i \in 1..Len(ctransports) : ctransports[i].prefix = BaseOf(caddr)
    /\ clast.op = "URL" => clast.value = BaseOf(caddr)
    /\ RequestsClean

\* C19 for the addresses that do not end in a bare '?'.
C19_ExceptForceQuery == ~caddr.ForceQuery => C19_BaseAddress

\* A client made from an address with credentials, a path ending in slashes,
\* a query and a fragment, after SetAuth and DB, synchronising a design.
C19_ExceptWitness ==
    /\ caddr = URL(<<"u", ":", "p">>, <<"/", "a", "/", "/">>, <<"q", "=", "1">>, FALSE, <<"f">>)
    /\ Len(chandles) = 2 /\ cauth = "b" /\ clast.op = "SyncDesign"
    /\ clast.reqs[2].url = <<"h", ":", "/", "/", "n", "/", "a">> \o revpath(RevStr(1), <<DBName, DesignID>>)

(***************************************************************************)
(* transport.request: the body of an error response                        *)
(***************************************************************************)
\* request was handed a response with status >= 400.
ErrorResponse == hreq # NoRequest /\ ~hex.neterr /\ hex.resp.status >= 400

\* C20: whatever the method, HEAD included, when request turns a response
\* with status >= 400 into a Server Error the body of that response has been
\* closed by the time request returns.
C20_ErrorsClosed == ErrorResponse => (hret.err.kind = "server" /\ hret.closed)

\* C20 for the methods other than HEAD.
C20_ExceptHead == (ErrorResponse /\ hreq.method # "HEAD") => C20_ErrorsClosed

(***************************************************************************)
(* transport.request: the content type                                     *)
(***************************************************************************)
\* C21 as stated: the request carries the JSON content type exactly when its
\* method is not GET and it has a body; a GET and a request without a body
\* (HEAD, DELETE) do not carry it.
C21_ContentType ==
    hreq # NoRequest => (hreq.ctype <=> (hreq.method # "GET" /\ hreq.hasBody))

\* C21, amended: the request carries the JSON content type exactly when its
\* method is not GET, whether or not it has a body.
C21_EveryNonGet == hreq # NoRequest => (hreq.ctype <=> hreq.method # "GET")

\* A DELETE without a body went out with the content type, and so did a HEAD.
C21_Witness ==
    /\ hreq.method \in {"DELETE", "HEAD"} /\ ~hreq.hasBody /\ hreq.ctype
    /\ hret.got

(***************************************************************************)
(* SyncDesign: its exchanges                                               *)
(***************************************************************************)
\* The completed SyncDesign calls.
Completed == UNION {{hist[c][i] : i \in 1..Len(hist[c])} : c \in Callers}

\* The exchanges of a completed call: its GET and its PUTs.
ExchangesOf(r) == 1 + r.puts

WentOn(r) ==
    /\ r.getErr = NoErr \/ NotFound(r.getErr).value
    /\ ~(r.remote.Rev # <<>> /\ ViewChecksum(r.remote.Views) = ViewChecksum(r.views))

Entries == UNION {{[c |-> c, i |-> i, r |-> hist[c][i]] : i \in 1..Len(hist[c])} : c \in Callers}

\* The call sent a PUT; the server answered it.
PutSent(r) == r.puts = 1
PutAnswered(r) == PutSent(r) /\ r.putErr.kind # "transport"

\* At most one of the PUTs addressed to a revision succeeds.
OnePutPerRevision ==
    \A e1, e2 \in Entries :
        (/\ <<e1.c, e1.i>> # <<e2.c, e2.i>>
         /\ PutSent(e1.r) /\ PutSent(e2.r)
         /\ UrlRev(e1.r.putUrl) = UrlRev(e2.r.putUrl)) =>
            ~(e1.r.putErr = NoErr /\ e2.r.putErr = NoErr)

\* The caller whose PUT the server refuses gets a conflict and an empty Rev.
LoserConflicts ==
    \A e \in Entries :
        (PutAnswered(e.r) /\ e.r.putErr.kind = "server") =>
            /\ Conflict(e.r.err).value
            /\ e.r.rev = <<>>

\* A successful call leaves a revision the server assigned to a document
\* with the checksum of the local design.
SuccessIsStored ==
    \A e \in Entries :
        e.r.err = NoErr =>
            /\ e.r.rev # <<>>
            /\ \E n \in 1..Len(srvLog) :
                   /\ e.r.rev = RevStr(n)
                   /\ ViewChecksum(srvLog[n].views) = ViewChecksum(e.r.views)

\* C23: with two callers synchronising the same design ID, under every
\* interleaving of their GETs and PUTs, at most one PUT succeeds per server
\* revision, a caller whose PUT is refused gets a conflict error and an empty
\* local Rev, and a call that returns success leaves a non-empty local Rev
\* that the server assigned to a document with the local design's checksum.
C23_NoLostUpdate == OnePutPerRevision /\ LoserConflicts /\ SuccessIsStored

\* Both callers fetched before either stored: one PUT succeeded, the other
\* was refused with a conflict and left an empty Rev.
C23_Witness ==
    \E e1, e2 \in Entries :
        /\ e1.c # e2.c /\ PutSent(e1.r) /\ PutSent(e2.r)
        /\ UrlRev(e1.r.putUrl) = UrlRev(e2.r.putUrl)
        /\ e1.r.err = NoErr /\ e1.r.rev = RevStr(1)
        /\ Conflict(e2.r.err).value /\ e2.r.rev = <<>> /\ e2.r.rev0 # <<>>

(***************************************************************************)
(* Operations with options: a failed encoding                              *)
(***************************************************************************)
\* The options do not encode for operation op: a value without a JSON form
\* under a key designated for op, or a value that is no scalar under another.
EncodingFails(op, opts) ==
    \E k \in DOMAIN opts :
        IF k \in Designated(op) THEN Marshal(opts[k]).err
        ELSE opts[k].kind \notin ScalarKinds

\* C24: when the options of Get, View, PostView, AllDocs or BulkGet do not
\* encode, the call returns the encoding error, no exchange takes place, and
\* the caller's result holds what it held before (BulkGet returns nil lists).
C24_NothingSent ==
    (bop \in Endpoints /\ EncodingFails(bop, barg.opts)) =>
        /\ ~bret.panic
        /\ bret.err = PlainErr("encoding")
        /\ ~bret.sent
        /\ IF bop = "BulkGet" THEN bret.res = NilSlice /\ bret.notFound = NilSlice
           ELSE bret.res = barg.target

\* View was called with a good option and a bad one and a result that held
\* rows, against a server ready to answer: it failed, and the rows are there.
C24_Witness ==
    /\ bop = "View" /\ EncodingFails(bop, barg.opts) /\ Cardinality(DOMAIN barg.opts) = 2
    /\ barg.target = SliceOf(<<"stale">>) /\ bret.res = SliceOf(<<"stale">>)
    /\ ~bex.neterr /\ bex.resp.status = 200 /\ bex.resp.body.kind = "results"
    /\ bret.err = PlainErr("encoding") /\ ~bret.sent

(***************************************************************************)
(* responseRev: every header value                                         *)
(***************************************************************************)
\* rev is the header value e less, at most, a double quote at each end.
OnlyQuotesRemoved(e, rev) ==
    \E a, b \in {<<>>, <<"\"">>} : e = a \o rev \o b

\* C25: for every response with status < 400, whatever its Etag header,
\* responseRev returns a revision or an error and does not panic, and the
\* revision it returns is the header value less its surrounding quotes only.
C25_ResponseRevTotal ==
    Succeeded =>
        /\ ~oret.panic
        /\ oret.err = NoErr => OnlyQuotesRemoved(oex.resp.etag, oret.rev)

\* C25 without the header values of one character: no panic, but characters
\* that are no quotes may still be removed.
C25_NoPanicFromTwo == (Succeeded /\ Len(oex.resp.etag) # 1) => ~oret.panic

(***************************************************************************)
(* The body of a successful response                                       *)
(***************************************************************************)
\* The last call received a response with status < 400.
Received == oret.got /\ ~oex.neterr /\ oex.resp.status < 400

\* C26: when Rev, Put, Delete, Security or PutSecurity returns, the body of
\* the response it received with status < 400 has been closed; this includes
\* the empty reply to Security and the success of PutSecurity.
C26_NoOpenBody == (oop # "" /\ Received) => oret.closed

\* C26 without PutSecurity and without the reply to Security that declares a
\* length of zero.
C26_ExceptSecurityPaths ==
    (/\ oop \in {"Rev", "Put", "Delete", "Security"} /\ Received
     /\ ~(oop = "Security" /\ ContentLength(oex.resp) = 0)) => oret.closed

(***************************************************************************)
(* The scope of the auth read lock                                         *)
(***************************************************************************)
\* The goroutines that hold the read lock of transport t.
ReadersOf(t) == transports[t].readers

\* Goroutine p holds no read lock.
HoldsNoLock(p) == \A t \in 1..Len(transports) : p \notin ReadersOf(t)

\* The read lock is held only between t.mu.RLock() and the return of
\* newRequest, and is released before t.http.Do on every path.
ReadLockScope ==
    \A p \in Procs : apc[p] \notin {"check", "add", "runlock"} => HoldsNoLock(p)

\* A request waits at t.mu.RLock() for a SetAuth only, whatever the requests
\* that hold the read lock or sit in their exchange.
NoRequestBlocksRequest ==
    \A p \in Procs :
        (apc[p] = "rlock" /\ transports[job[p].tr].writer = 0) => ENABLED RLock(p)

\* No setAuth call is in progress, and every request in progress is past
\* newRequest: in its exchange, which may last for ever, or done.
AllThrough == \A p \in Procs : apc[p] \notin Setting \cup Building

\* C27: a request holds the auth read lock only while it builds the request
\* and calls AddAuth, and has released it, auth set or nil, before the HTTP
\* exchange starts, and no request waits for another request; so, AddAuth
\* returning and the scheduler being fair, every setAuth call completes and
\* every request reaches its exchange, even while other requests never leave
\* theirs: the calls of a behaviour being finitely many, from some state on
\* none of them is left at the lock.
C27_LockScopeAndProgress ==
    /\ [](ReadLockScope /\ NoRequestBlocksRequest)
    /\ <>[]AllThrough

\* A SetAuth holds the write lock of a transport while two requests through
\* the same transport are in their exchange.
C27_Witness ==
    \E p, q, r \in Procs :
        /\ q # r
        /\ apc[p] = "write"
        /\ apc[q] = "exchange" /\ job[q].tr = handles[1]
        /\ apc[r] = "exchange" /\ job[r].tr = handles[1]

====
